---------------------------- MODULE Spec2Model ----------------------------
(***************************************************************************)
(* Vulnerability tracker: the tracking store (vulnerabilities and          *)
(* client_vuln_tracking tables), the consolidation of tracking rows into   *)
(* one record per (bulletin, client), the daily rollover of treatment      *)
(* dates, the SLA/age calculator and the KPI aggregators of                *)
(* src/database/db.py, with the request handlers of src/app.py that call   *)
(* them.                                                                   *)
(*                                                                         *)
(* Representation of the values the code handles as text:                  *)
(*  - a date text 'YYYY-MM-DD' is the integer YYYYMMDD, so that the order  *)
(*    of the integers is the order of the texts (SQL and Python compare    *)
(*    the dates as strings); the empty text '' is 0; None / SQL NULL is    *)
(*    NoneVal.  A text such as '2023-02-29' has an encoding but does not   *)
(*    parse (strptime);                                                    *)
(*  - a month text 'YYYY-MM' is the integer YYYYMM, 0 when absent;         *)
(*  - an absent or empty client filter is the empty string;                *)
(*  - accented letters of the status texts are written without accent.     *)
(***************************************************************************)
EXTENDS Integers, Sequences, FiniteSets, TLC

VARIABLES
    vulnerabilities,  \* table vulnerabilities: one row per (id_bulletin, cve_id)
    tracking,         \* table client_vuln_tracking: rows with an AUTOINCREMENT id
    nextId,           \* the next AUTOINCREMENT id of client_vuln_tracking
    today,            \* the server's calendar date, datetime.now() as YYYYMMDD
    response,         \* what the request handler served last returned
    inflight          \* of each concurrent rollover request: where it is in
                      \* update_daily_treatment_dates and the date it read

vars == <<vulnerabilities, tracking, nextId, today, response, inflight>>

\* the number of requests that run update_daily_treatment_dates concurrently
MaxRequests == 2

Requests == 1..MaxRequests

\* a request that has not entered update_daily_treatment_dates
idle_request == [pc |-> "idle", date |-> 0]

-----------------------------------------------------------------------------
(* Bounds of the model *)

\* the number of rows client_vuln_tracking ever receives (ids 1..MaxRows)
MaxRows == 3

\* the number of rows the store receives where treatment dates and the clock vary
MaxDatedRows == 2

\* the number of consecutive calendar days the server's clock goes through
MaxDays == 2

-----------------------------------------------------------------------------
(* Python None / SQL NULL *)
NoneVal == -1

-----------------------------------------------------------------------------
(* The calendar: datetime.strptime(text, '%Y-%m-%d'), date subtraction and   *)
(* calendar.monthrange                                                      *)

Date(y, m, d) == y * 10000 + m * 100 + d

year_of(t) == t \div 10000

month_of(t) == (t \div 100) % 100

day_of(t) == t % 100

is_leap(y) == (y % 4 = 0) /\ ((y % 100 # 0) \/ (y % 400 = 0))

\* calendar.monthrange(year, m)[1]
days_in_month(y, m) ==
    IF m = 2 THEN (IF is_leap(y) THEN 29 ELSE 28)
    ELSE IF m \in {4, 6, 9, 11} THEN 30 ELSE 31

\* whether strptime(t, '%Y-%m-%d') returns a datetime (it raises otherwise:
\* TypeError for None, ValueError for a text that is no calendar date)
strptime_ok(t) ==
    /\ t # NoneVal
    /\ t > 0
    /\ year_of(t) \in 1..9999
    /\ month_of(t) \in 1..12
    /\ day_of(t) \in 1..days_in_month(year_of(t), month_of(t))

RECURSIVE days_before_month(_, _)
days_before_month(y, m) ==
    IF m <= 1 THEN 0 ELSE days_before_month(y, m - 1) + days_in_month(y, m - 1)

\* datetime.toordinal of a parsed date: the day number the subtraction uses
toordinal(t) ==
    LET y == year_of(t) - 1
    IN y * 365 + (y \div 4) - (y \div 100) + (y \div 400)
         + days_before_month(year_of(t), month_of(t)) + day_of(t)

\* the calendar day after t (the clock passing midnight)
next_day(t) ==
    IF day_of(t) < days_in_month(year_of(t), month_of(t)) THEN t + 1
    ELSE IF month_of(t) < 12 THEN Date(year_of(t), month_of(t) + 1, 1)
    ELSE Date(year_of(t) + 1, 1, 1)

\* the first day the model's clock shows
FirstDay == Date(2024, 2, 20)

\* how many days after FirstDay the date t is
days_since_first(t) == toordinal(t) - toordinal(FirstDay)

-----------------------------------------------------------------------------
(* Status texts *)

closed_statuses ==
    {"Clos", "Clos (Patch cumulative)", "Clos (Non concerne)", "Clos (Traite)"}

open_statuses == {"Open", "WIP", "Pending", "NOK"}

Statuses == open_statuses \cup closed_statuses

\* get_client_vulns: status_priority.get(s, 99)
status_priority(s) ==
    CASE s = "Open" -> 1
      [] s = "WIP" -> 2
      [] s = "Pending" -> 3
      [] s = "NOK" -> 4
      [] s \in closed_statuses -> 5
      [] OTHER -> 99

\* the texts of the model in the order of SQLite's BINARY collation and of
\* Python's str comparison (code points)
binary_collation ==
    << "", "Acme", "B1", "B2", "B3", "Beta", "CVE-1", "CVE-2", "CVE-3",
       "Clos", "Clos (Non concerne)", "Clos (Patch cumulative)", "Clos (Traite)",
       "NOK", "Open", "Pending", "WIP", "c0", "c1" >>

collation_rank ==
    [s \in { binary_collation[i] : i \in 1..Len(binary_collation) } |->
       CHOOSE i \in 1..Len(binary_collation) : binary_collation[i] = s]

text_rank(s) == collation_rank[s]

text_lt(a, b) == text_rank(a) < text_rank(b)


-----------------------------------------------------------------------------
(* The joined read of get_client_vulns *)

\* a LEFT JOIN: a tracking row without a fact comes with NULL fact columns
joined_rows_left_join(trk, vul) ==
    { [id |-> t.id, client |-> t.client, id_bulletin |-> t.id_bulletin,
       cve_id |-> t.cve_id, Date_de_sortie |-> v.Date_de_sortie,
       processing_time |-> v.processing_time, status |-> t.status,
       Date_de_traitement |-> t.Date_de_traitement, comment |-> t.comment] :
      <<t, v>> \in { p \in trk \X vul :
                       /\ p[1].id_bulletin = p[2].id_bulletin
                       /\ p[1].cve_id = p[2].cve_id } }
    \cup
    { [id |-> t.id, client |-> t.client, id_bulletin |-> t.id_bulletin,
       cve_id |-> t.cve_id, Date_de_sortie |-> NoneVal,
       processing_time |-> NoneVal, status |-> t.status,
       Date_de_traitement |-> t.Date_de_traitement, comment |-> t.comment] :
      t \in { x \in trk : ~\E v \in vul : /\ x.id_bulletin = v.id_bulletin
                                         /\ x.cve_id = v.cve_id } }

\* FROM client_vuln_tracking t JOIN vulnerabilities v
\*   ON t.id_bulletin = v.id_bulletin AND t.cve_id = v.cve_id
joined_rows(trk, vul) ==
    { [id |-> t.id, client |-> t.client, id_bulletin |-> t.id_bulletin,
       cve_id |-> t.cve_id, Date_de_sortie |-> v.Date_de_sortie,
       processing_time |-> v.processing_time, status |-> t.status,
       Date_de_traitement |-> t.Date_de_traitement, comment |-> t.comment] :
      <<t, v>> \in { p \in trk \X vul :
                       /\ p[1].id_bulletin = p[2].id_bulletin
                       /\ p[1].cve_id = p[2].cve_id } }

\* the WHERE clause: the client filter and the release-date range; a filter
\* that is None or empty is not applied, and a comparison with NULL selects
\* nothing
where_filters(r, client, start_date, end_date) ==
    /\ (client # "" => r.client = client)
    /\ IF start_date > 0 /\ end_date > 0
       THEN /\ r.Date_de_sortie # NoneVal
            /\ r.Date_de_sortie >= start_date
            /\ r.Date_de_sortie <= end_date
       ELSE IF start_date > 0
       THEN r.Date_de_sortie # NoneVal /\ r.Date_de_sortie >= start_date
       ELSE IF end_date > 0
       THEN r.Date_de_sortie # NoneVal /\ r.Date_de_sortie <= end_date
       ELSE TRUE

\* a read without ORDER BY: the rows in the order of the table scan (by id)
order_by_id(a, b) == a.id < b.id

\* ORDER BY v.Date_de_sortie DESC, t.id_bulletin, t.client, t.cve_id; rows the
\* ORDER BY leaves tied come in the order of the table scan (by id)
order_by(a, b) ==
    IF a.Date_de_sortie # b.Date_de_sortie THEN a.Date_de_sortie > b.Date_de_sortie
    ELSE IF a.id_bulletin # b.id_bulletin THEN text_lt(a.id_bulletin, b.id_bulletin)
    ELSE IF a.client # b.client THEN text_lt(a.client, b.client)
    ELSE IF a.cve_id # b.cve_id THEN text_lt(a.cve_id, b.cve_id)
    ELSE a.id < b.id

RECURSIVE sort_rows(_)
sort_rows(S) ==
    IF S = {} THEN <<>>
    ELSE LET first == CHOOSE r \in S : \A o \in S \ {r} : order_by(r, o)
         IN <<first>> \o sort_rows(S \ {first})

\* rows = conn.execute(query, params).fetchall()
fetch_rows(trk, vul, client, start_date, end_date) ==
    sort_rows({ r \in joined_rows(trk, vul) :
                  where_filters(r, client, start_date, end_date) })

\* the key of the group a row goes to: (row['id_bulletin'], row['client'])
group_key(r) == <<r.id_bulletin, r.client>>

\* the keys of the dict grouped, in insertion order (first appearance in rows)
grouped_keys(rows) ==
    LET first_of_key(i) == \A j \in 1..(i - 1) : group_key(rows[j]) # group_key(rows[i])
        idx == { i \in 1..Len(rows) : first_of_key(i) }
        RECURSIVE keys_from(_)
        keys_from(i) ==
            IF i > Len(rows) THEN <<>>
            ELSE IF i \in idx THEN <<group_key(rows[i])>> \o keys_from(i + 1)
            ELSE keys_from(i + 1)
    IN keys_from(1)

\* grouped[key]: the rows of the key, in the order of rows
grouped_rows(rows, key) ==
    LET in_group(r) == group_key(r) = key
    IN SelectSeq(rows, in_group)

-----------------------------------------------------------------------------
(* The resolution of one group in get_client_vulns *)

\* a resolution that takes the least status text, as SQL MIN does, instead of
\* the least priority number
group_status_by_text(group_rows) ==
    CHOOSE m \in { group_rows[i].status : i \in 1..Len(group_rows) } :
        \A i \in 1..Len(group_rows) : ~text_lt(group_rows[i].status, m)

\* min(all_statuses, key=priority): the first status of least priority number
group_status(group_rows) ==
    LET p(i) == status_priority(group_rows[i].status)
        i == CHOOSE i \in 1..Len(group_rows) :
                 /\ \A j \in 1..Len(group_rows) : p(i) <= p(j)
                 /\ \A j \in 1..(i - 1) : p(j) > p(i)
    IN group_rows[i].status

\* Python's max of a non-empty collection of date texts
max_date(S) == CHOOSE m \in S : \A x \in S : x <= m

\* Python's max of a collection of comment texts, default ''
max_text(S) == IF S = {} THEN "" ELSE CHOOSE m \in S : \A x \in S : ~text_lt(m, x)

\* max(...) compares its elements when there are two or more of them, and a
\* comparison with None raises TypeError
max_raises(values) ==
    /\ Len(values) >= 2
    /\ \E i \in 1..Len(values) : values[i] = NoneVal

seq_range(s) == { s[i] : i \in 1..Len(s) }

dates_of(group_rows) == [i \in 1..Len(group_rows) |-> group_rows[i].Date_de_traitement]

not_closed(r) == r.status \notin closed_statuses

\* a resolution of the date that takes the latest date of all the rows of the
\* group, whatever the resolved status
group_date_of_all_rows(group_rows) == max_date(seq_range(dates_of(group_rows)))

\* a resolution of the date that looks only at the rows whose status is the
\* resolved status
group_date_of_same_status(group_rows) ==
    LET same(r) == r.status = group_status(group_rows)
    IN max_date(seq_range(dates_of(SelectSeq(group_rows, same))))

\* date_traitement of the group (db.py lines 198-202)
group_date(group_rows) ==
    IF group_status(group_rows) \in closed_statuses
    THEN max_date(seq_range(dates_of(group_rows)))
    ELSE LET open_dates == seq_range(dates_of(SelectSeq(group_rows, not_closed)))
         IN IF open_dates # {} THEN max_date(open_dates)
            ELSE max_date(seq_range(dates_of(group_rows)))

\* comment of the group (db.py lines 200 and 203)
group_comment(group_rows) ==
    IF group_status(group_rows) \in closed_statuses
    THEN max_text({ r.comment : r \in { x \in seq_range(group_rows) :
                                         x.status \in closed_statuses } })
    ELSE max_text({ r.comment : r \in { x \in seq_range(group_rows) :
                                         x.status = group_status(group_rows) } })

\* whether the resolution of the group raises: the max over all the rows'
\* dates is evaluated in both branches (as the value, or as the default)
group_raises(group_rows) ==
    \/ max_raises(dates_of(group_rows))
    \/ /\ group_status(group_rows) \notin closed_statuses
       /\ max_raises(dates_of(SelectSeq(group_rows, not_closed)))

-----------------------------------------------------------------------------
(* calculate_age_and_sla *)

\* whether the body of the try block raises: strptime on either date, or the
\* comparison of age_days with a processing_time that is None
sla_body_raises(date_sortie, date_traitement, processing_time) ==
    \/ ~strptime_ok(date_sortie)
    \/ ~strptime_ok(date_traitement)
    \/ processing_time = NoneVal

\* an except clause that names ValueError: the TypeError of a None operand
\* (the first operation that fails decides the exception) is not caught
sla_except_catches_value_error(date_sortie, date_traitement, processing_time) ==
    IF ~strptime_ok(date_sortie) THEN date_sortie # NoneVal
    ELSE IF ~strptime_ok(date_traitement) THEN date_traitement # NoneVal
    ELSE processing_time # NoneVal

\* the exceptions the except clause catches: a bare except catches them all
sla_except_catches(date_sortie, date_traitement, processing_time) == TRUE

\* the calculator with the comparison age_days >= processing_time
calculate_age_and_sla_ge(date_sortie, date_traitement, processing_time) ==
    IF sla_body_raises(date_sortie, date_traitement, processing_time)
    THEN [raised |-> FALSE, age_days |-> 0, sla_status |-> "N/A"]
    ELSE LET age_days == toordinal(date_traitement) - toordinal(date_sortie)
         IN [raised |-> FALSE, age_days |-> age_days,
             sla_status |-> IF age_days >= processing_time
                            THEN "Hors delai de remediation"
                            ELSE "Traite dans le delai"]

calculate_age_and_sla(date_sortie, date_traitement, processing_time) ==
    IF sla_body_raises(date_sortie, date_traitement, processing_time)
    THEN IF sla_except_catches(date_sortie, date_traitement, processing_time)
         THEN [raised |-> FALSE, age_days |-> 0, sla_status |-> "N/A"]
         ELSE [raised |-> TRUE, age_days |-> 0, sla_status |-> ""]
    ELSE LET age_days == toordinal(date_traitement) - toordinal(date_sortie)
         IN [raised |-> FALSE, age_days |-> age_days,
             sla_status |-> IF age_days > processing_time
                            THEN "Hors delai de remediation"
                            ELSE "Traite dans le delai"]

-----------------------------------------------------------------------------
(* get_client_vulns *)

\* the cves of a group: sorted(set(...)) joined for display, kept as the set
group_cves(group_rows) == { r.cve_id : r \in seq_range(group_rows) }

\* row_dict of one group (db.py lines 192-233)
consolidated_record(group_rows) ==
    LET base == group_rows[1]
        date_traitement == group_date(group_rows)
        sla == calculate_age_and_sla(base.Date_de_sortie, date_traitement,
                                     base.processing_time)
    IN [id |-> base.id,
        client |-> base.client,
        id_bulletin |-> base.id_bulletin,
        cves |-> group_cves(group_rows),
        Date_de_sortie |-> base.Date_de_sortie,
        processing_time |-> base.processing_time,
        status |-> group_status(group_rows),
        Date_de_traitement |-> date_traitement,
        comment |-> group_comment(group_rows),
        age_alerte |-> sla.age_days,
        sla |-> sla.sla_status]

\* processed_rows: one record per group, in the order of the groups
consolidate(rows) ==
    LET keys == grouped_keys(rows)
    IN [i \in 1..Len(keys) |-> consolidated_record(grouped_rows(rows, keys[i]))]

\* whether get_client_vulns raises instead of returning
consolidate_raises(rows) ==
    LET keys == grouped_keys(rows)
    IN \E i \in 1..Len(keys) :
          LET g == grouped_rows(rows, keys[i])
          IN \/ group_raises(g)
             \/ calculate_age_and_sla(g[1].Date_de_sortie, group_date(g),
                                      g[1].processing_time).raised

get_client_vulns(trk, vul, client, start_date, end_date) ==
    consolidate(fetch_rows(trk, vul, client, start_date, end_date))

get_client_vulns_raises(trk, vul, client, start_date, end_date) ==
    consolidate_raises(fetch_rows(trk, vul, client, start_date, end_date))

-----------------------------------------------------------------------------
(* KPI: get_status_distribution and get_sla_compliance *)

\* SQLite strftime('%Y-%m', text) as YYYYMM: NULL for a text that is no date;
\* a day of month up to 31 is accepted and overflows into the next month
sql_month(t) ==
    IF t = NoneVal \/ t <= 0 \/ month_of(t) \notin 1..12 \/ day_of(t) \notin 1..31
    THEN NoneVal
    ELSE IF day_of(t) <= days_in_month(year_of(t), month_of(t))
    THEN t \div 100
    ELSE next_day(Date(year_of(t), month_of(t),
                       days_in_month(year_of(t), month_of(t)))) \div 100

\* SQL MIN(t.status) over the rows of a group: the least text
sql_min_status(S) == CHOOSE m \in S : \A x \in S : ~text_lt(x, m)

\* a query that groups by CVE as well, so that every tracking row counts
status_distribution_rows_per_cve(trk, vul, client, month) ==
    LET sel == { r \in joined_rows(trk, vul) :
                   /\ (client # "" => r.client = client)
                   /\ (month > 0 => sql_month(r.Date_de_sortie) = month) }
    IN { [client |-> r.client, id_bulletin |-> r.id_bulletin, id |-> r.id,
          status |-> r.status] : r \in sel }

\* the rows of the query of get_status_distribution:
\* SELECT t.client, t.id_bulletin, MIN(t.status) ... GROUP BY t.client, t.id_bulletin
status_distribution_rows(trk, vul, client, month) ==
    LET sel == { r \in joined_rows(trk, vul) :
                   /\ (client # "" => r.client = client)
                   /\ (month > 0 => sql_month(r.Date_de_sortie) = month) }
        keys == { <<r.client, r.id_bulletin>> : r \in sel }
    IN { [client |-> k[1], id_bulletin |-> k[2],
          status |-> sql_min_status({ r.status : r \in
                        { x \in sel : x.client = k[1] /\ x.id_bulletin = k[2] } })] :
         k \in keys }

\* the dict get_status_distribution returns, as a function: from status for
\* one client, from <<client, status>> for all clients; a key is present only
\* when a row of the query has it
get_status_distribution(trk, vul, client, month) ==
    LET rows == status_distribution_rows(trk, vul, client, month)
    IN IF client # ""
       THEN [st \in { r.status : r \in rows } |->
               Cardinality({ r \in rows : r.status = st })]
       ELSE [k \in { <<r.client, r.status>> : r \in rows } |->
               Cardinality({ r \in rows : r.client = k[1] /\ r.status = k[2] })]

\* whether year, m = map(int, month.split('-')); monthrange(year, m) returns
month_ok(month) == month > 0 /\ (month % 100) \in 1..12 /\ (month \div 100) \in 1..9999

\* start_date = f"{month}-01"
month_start(month) == month * 100 + 1

\* end_date = f"{month}-{last_day:02d}"
month_end(month) == month * 100 + days_in_month(month \div 100, month % 100)

\* a count that takes every record not breached as treated within the delay
sla_counts_not_breached(tracker_rows) ==
    [within |-> Cardinality({ i \in 1..Len(tracker_rows) :
                                tracker_rows[i].sla # "Hors delai de remediation" }),
     breached |-> Cardinality({ i \in 1..Len(tracker_rows) :
                                tracker_rows[i].sla = "Hors delai de remediation" })]

\* the result dict of get_sla_compliance, counted over tracker_rows
sla_counts(tracker_rows) ==
    [within |-> Cardinality({ i \in 1..Len(tracker_rows) :
                                tracker_rows[i].sla = "Traite dans le delai" }),
     breached |-> Cardinality({ i \in 1..Len(tracker_rows) :
                                tracker_rows[i].sla = "Hors delai de remediation" })]

-----------------------------------------------------------------------------
(* Responses *)

no_response == [kind |-> "none", rows |-> <<>>]

error_response(kind) == [kind |-> kind, error |-> TRUE, rows |-> <<>>]

\* the response of a handler that made the consolidated read
read_response(kind, trk, vul, client, start_date, end_date) ==
    IF get_client_vulns_raises(trk, vul, client, start_date, end_date)
    THEN error_response(kind)
    ELSE [kind |-> kind, error |-> FALSE,
          rows |-> get_client_vulns(trk, vul, client, start_date, end_date)]

-----------------------------------------------------------------------------
(* Writes of src/database/db.py *)

\* INSERT OR IGNORE INTO vulnerabilities, once per CVE of vuln['cves']; the
\* primary key (id_bulletin, cve_id) makes a second insert a no-op
vulnerabilities_after_insert(vul, id_bulletin, cves, date_sortie, processing_time) ==
    vul \cup { [id_bulletin |-> id_bulletin, cve_id |-> c,
                Date_de_sortie |-> date_sortie,
                processing_time |-> processing_time] :
               c \in { x \in cves : ~\E v \in vul : /\ v.id_bulletin = id_bulletin
                                                    /\ v.cve_id = x } }

insert_vulnerability(id_bulletin, cves, date_sortie, processing_time) ==
    /\ vulnerabilities' = vulnerabilities_after_insert(
                              vulnerabilities, id_bulletin, cves, date_sortie,
                              processing_time)
    /\ response' = no_response
    /\ UNCHANGED <<inflight, tracking, nextId, today>>

\* INSERT OR IGNORE INTO client_vuln_tracking: the table has no constraint
\* besides the AUTOINCREMENT primary key, so the row is always inserted;
\* status defaults to 'Open' and Date_de_traitement to today
tracking_after_insert(trk, id, id_bulletin, cve_id, client, responsable, comment, now) ==
    trk \cup { [id |-> id, id_bulletin |-> id_bulletin, cve_id |-> cve_id,
                client |-> client, status |-> "Open",
                Responsable_resolution |-> responsable,
                Date_de_traitement |-> now, comment |-> comment] }

insert_client_tracking(id_bulletin, cve_id, client, responsable, comment) ==
    /\ tracking' = tracking_after_insert(tracking, nextId, id_bulletin, cve_id,
                                         client, responsable, comment, today)
    /\ nextId' = nextId + 1
    /\ response' = no_response
    /\ UNCHANGED <<inflight, vulnerabilities, today>>

\* update_client_vuln: one UPDATE ... WHERE id = ?
tracking_after_update(trk, row_id, status, comment, date_traitement, now) ==
    { IF r.id # row_id THEN r
      ELSE IF date_traitement # NoneVal /\ date_traitement # 0
      THEN [r EXCEPT !.status = status, !.comment = comment,
                     !.Date_de_traitement = date_traitement]
      ELSE IF status \in {"Open", "WIP", "Pending", "NOK"}
      THEN [r EXCEPT !.status = status, !.comment = comment,
                     !.Date_de_traitement = now]
      ELSE IF status \in closed_statuses
      THEN [r EXCEPT !.status = status, !.comment = comment]
      ELSE [r EXCEPT !.status = status, !.comment = comment,
                     !.Date_de_traitement = now] : r \in trk }

update_client_vuln(row_id, status, comment, date_traitement) ==
    /\ tracking' = tracking_after_update(tracking, row_id, status, comment,
                                         date_traitement, today)
    /\ response' = no_response
    /\ UNCHANGED <<inflight, vulnerabilities, nextId, today>>

\* DELETE FROM client_vuln_tracking WHERE id = ?
delete_client_vuln(row_id) ==
    /\ tracking' = { r \in tracking : r.id # row_id }
    /\ response' = no_response
    /\ UNCHANGED <<inflight, vulnerabilities, nextId, today>>

\* a DELETE that names the bulletin only: the rows of every client go
tracking_after_delete_bulletin(trk, id_bulletin, client) ==
    { r \in trk : r.id_bulletin # id_bulletin }

\* DELETE FROM client_vuln_tracking WHERE id_bulletin = ? AND client = ?
tracking_after_delete_group(trk, id_bulletin, client) ==
    { r \in trk : ~(r.id_bulletin = id_bulletin /\ r.client = client) }

\* delete_vulnerability (app.py) calls delete_client_vuln_group and redirects
delete_client_vuln_group(id_bulletin, client) ==
    /\ tracking' = tracking_after_delete_group(tracking, id_bulletin, client)
    /\ response' = no_response
    /\ UNCHANGED <<inflight, vulnerabilities, nextId, today>>

\* an UPDATE without the WHERE clause: every row gets today's date
rollover_every_row(trk, now) == { [r EXCEPT !.Date_de_traitement = now] : r \in trk }

\* an UPDATE that moves the date of the open rows one day forward instead of
\* setting it to today
rollover_one_day_forward(trk, now) ==
    { IF r.status \in {"Open", "WIP", "Pending", "NOK"}
      THEN [r EXCEPT !.Date_de_traitement =
                        IF strptime_ok(r.Date_de_traitement)
                        THEN next_day(r.Date_de_traitement) ELSE now]
      ELSE r : r \in trk }

\* the UPDATE of update_daily_treatment_dates:
\* SET Date_de_traitement = today WHERE status IN ('Open','WIP','Pending','NOK')
rollover(trk, now) ==
    { IF r.status \in {"Open", "WIP", "Pending", "NOK"}
      THEN [r EXCEPT !.Date_de_traitement = now]
      ELSE r : r \in trk }

update_daily_treatment_dates ==
    /\ tracking' = rollover(tracking, today)
    /\ response' = no_response
    /\ UNCHANGED <<inflight, vulnerabilities, nextId, today>>

-----------------------------------------------------------------------------
(* Request handlers of src/app.py *)

\* an UPDATE ... WHERE id = ?: only the row row_id gets the submitted values
tracking_after_form_one_row(trk, row_id, status, comment, date_traitement, responsable) ==
    { IF r.id = row_id
      THEN [r EXCEPT !.status = status, !.comment = comment,
                     !.Date_de_traitement = date_traitement,
                     !.Responsable_resolution = responsable]
      ELSE r : r \in trk }

\* the UPDATE of the tracker form: every row of the bulletin and client of
\* row row_id gets the submitted values
tracking_after_form(trk, row_id, status, comment, date_traitement, responsable) ==
    IF ~\E r \in trk : r.id = row_id THEN trk
    ELSE LET row == CHOOSE r \in trk : r.id = row_id
         IN { IF r.id_bulletin = row.id_bulletin /\ r.client = row.client
              THEN [r EXCEPT !.status = status, !.comment = comment,
                             !.Date_de_traitement = date_traitement,
                             !.Responsable_resolution = responsable]
              ELSE r : r \in trk }

\* POST /tracker with a row_id: the group update, then a redirect
tracker_post(row_id, status, comment, date_traitement, responsable) ==
    /\ tracking' = tracking_after_form(tracking, row_id, status, comment,
                                       date_traitement, responsable)
    /\ response' = no_response
    /\ UNCHANGED <<inflight, vulnerabilities, nextId, today>>

\* GET /tracker: the rollover, then the month filter turned into a date range
\* (which raises on a month that is no YYYY-MM), then the consolidated read
tracker_get(client_filter, month) ==
    /\ tracking' = rollover(tracking, today)
    /\ response' =
         IF month = 0
         THEN read_response("tracker", tracking', vulnerabilities, client_filter, 0, 0)
         ELSE IF ~month_ok(month) THEN error_response("tracker")
         ELSE read_response("tracker", tracking', vulnerabilities, client_filter,
                            month_start(month), month_end(month))
    /\ UNCHANGED <<inflight, vulnerabilities, nextId, today>>

\* export_single_client, and process_client of the parallel export: the
\* consolidated read of one client
export_single_client(client, start_date, end_date) ==
    /\ response' = read_response("export", tracking, vulnerabilities, client,
                                 start_date, end_date)
    /\ UNCHANGED <<inflight, vulnerabilities, tracking, nextId, today>>

\* GET /api/kpi/sla_compliance: get_sla_compliance(client, month); the handler
\* turns an exception into an error response
kpi_sla_compliance(client, month) ==
    /\ response' =
         IF month # 0 /\ ~month_ok(month) THEN error_response("sla_compliance")
         ELSE LET start_date == IF month = 0 THEN 0 ELSE month_start(month)
                  end_date == IF month = 0 THEN 0 ELSE month_end(month)
                  r == read_response("sla_compliance", tracking, vulnerabilities,
                                     client, start_date, end_date)
              IN IF r.error THEN r
                 ELSE [kind |-> r.kind, error |-> FALSE, rows |-> r.rows,
                       data |-> sla_counts(r.rows)]
    /\ UNCHANGED <<inflight, vulnerabilities, tracking, nextId, today>>

\* the server's clock passes midnight
tick ==
    /\ days_since_first(today) < MaxDays - 1
    /\ today' = next_day(today)
    /\ UNCHANGED <<inflight, vulnerabilities, tracking, nextId, response>>

-----------------------------------------------------------------------------
(* Inputs of the operations *)

Bulletins == {"B1", "B2"}

CVEs == {"CVE-1", "CVE-2"}

Clients == {"Acme", "Beta"}

\* the (bulletin, CVE, client) triples that ingestion tracks
TrackInputs ==
    { <<"B1", "CVE-1", "Acme">>, <<"B1", "CVE-2", "Acme">>, <<"B1", "CVE-1", "Beta">>,
      <<"B2", "CVE-1", "Acme">> }

\* Date_de_sortie of the bulletins that are ingested
release_date(id_bulletin) ==
    IF id_bulletin = "B1" THEN Date(2024, 2, 16) ELSE Date(2024, 1, 15)

\* vuln.get('processing_time', 5)
default_processing_time == 5

\* the statuses given to update_client_vuln where groups and statuses vary
StatusInputs == {"WIP", "Clos", "Clos (Traite)"}

\* the statuses given to the writes where dates and the clock vary
DatedStatusInputs == {"Open", "WIP", "Clos (Traite)"}

\* the month filters of the requests: none, and February 2024
MonthInputs == {0, 202402}

StoreInit ==
    /\ inflight = [i \in Requests |-> idle_request]
    /\ vulnerabilities = {}
    /\ tracking = {}
    /\ nextId = 1
    /\ today = FirstDay
    /\ response = no_response

-----------------------------------------------------------------------------
(* Spec: ingestion, status updates and deletions over two bulletins, two     *)
(* CVEs and two clients, on one calendar day                                *)

Init == StoreInit

Next ==
    \/ \E b \in Bulletins :
          insert_vulnerability(b, CVEs, release_date(b), default_processing_time)
    \/ \E k \in TrackInputs :
          /\ nextId <= MaxRows
          /\ insert_client_tracking(k[1], k[2], k[3], "SOC Team", "c0")
    \/ \E r \in tracking, st \in StatusInputs :
          update_client_vuln(r.id, st, "c0", 0)
    \/ \E r \in tracking : delete_client_vuln_group(r.id_bulletin, r.client)

Spec == Init /\ [][Next]_vars

-----------------------------------------------------------------------------
(* Claims on the consolidation of statuses, checked under Spec *)

\* the priority numbers of the status enumeration as the design states them
stated_priority(s) ==
    IF s = "Open" THEN 1
    ELSE IF s = "WIP" THEN 2
    ELSE IF s = "Pending" THEN 3
    ELSE IF s = "NOK" THEN 4
    ELSE 5

\* the consolidated read without filters
all_records == get_client_vulns(tracking, vulnerabilities, "", 0, 0)

\* the tracking rows of a pair that are joined to a vulnerability fact
pair_rows(id_bulletin, client) ==
    { r \in joined_rows(tracking, vulnerabilities) :
        r.id_bulletin = id_bulletin /\ r.client = client }

joined_pairs == { <<r.id_bulletin, r.client>> : r \in joined_rows(tracking, vulnerabilities) }

records_of_pair(recs, pair) ==
    { i \in 1..Len(recs) : recs[i].id_bulletin = pair[1] /\ recs[i].client = pair[2] }

\* C1: for every (bulletin, client) pair with at least one tracking row joined
\* to a vulnerability fact, get_client_vulns() without filters returns exactly
\* one record for the pair, whose status is a status of the pair's rows with
\* the least priority number (Open 1 < WIP 2 < Pending 3 < NOK 4 < closed 5);
\* a pair with row statuses {WIP, Clos, Open} resolves to Open; and every
\* record belongs to such a pair.
C1_OneRecordPerPairWithLeastPriority ==
    LET recs == get_client_vulns(tracking, vulnerabilities, "", 0, 0)
        joined == joined_rows(tracking, vulnerabilities)
        pairs == { <<r.id_bulletin, r.client>> : r \in joined }
    IN /\ ~get_client_vulns_raises(tracking, vulnerabilities, "", 0, 0)
       /\ \A i \in 1..Len(recs) : <<recs[i].id_bulletin, recs[i].client>> \in pairs
       /\ \A pair \in pairs :
             LET rows == { r \in joined : r.id_bulletin = pair[1] /\ r.client = pair[2] }
                 mine == records_of_pair(recs, pair)
             IN /\ Cardinality(mine) = 1
                /\ \A i \in mine :
                      /\ \E r \in rows : r.status = recs[i].status
                      /\ \A r \in rows :
                            stated_priority(recs[i].status) <= stated_priority(r.status)
                      /\ ({ r.status : r \in rows } = {"WIP", "Clos", "Open"}
                            => recs[i].status = "Open")

\* a pair whose three rows have the statuses WIP, Clos and Open has been
\* consolidated to Open
C1_Witness ==
    /\ \E pair \in joined_pairs :
          /\ { r.status : r \in pair_rows(pair[1], pair[2]) } = {"WIP", "Clos", "Open"}
          /\ \E i \in 1..Len(all_records) :
                /\ all_records[i].id_bulletin = pair[1]
                /\ all_records[i].client = pair[2]
                /\ all_records[i].status = "Open"

\* the count a distribution reports for a key, 0 when the key is absent
dist_count(d, k) == IF k \in DOMAIN d THEN d[k] ELSE 0

RECURSIVE sum_over(_, _)
sum_over(d, keys) ==
    IF keys = {} THEN 0
    ELSE LET k == CHOOSE x \in keys : TRUE
         IN d[k] + sum_over(d, keys \ {k})

\* the number of consolidated records of a client with a resolved status
records_with_status(client, status) ==
    LET recs == get_client_vulns(tracking, vulnerabilities, client, 0, 0)
    IN Cardinality({ i \in 1..Len(recs) : recs[i].status = status })

\* C2: for every client c and status s, the count get_status_distribution
\* reports for (c, s), asked for all clients or for c alone, equals the number
\* of consolidated records of get_client_vulns for c with resolved status s.
C2_DistributionMatchesConsolidation ==
    \A c \in Clients, s \in Statuses :
       /\ dist_count(get_status_distribution(tracking, vulnerabilities, "", 0), <<c, s>>)
            = records_with_status(c, s)
       /\ dist_count(get_status_distribution(tracking, vulnerabilities, c, 0), s)
            = records_with_status(c, s)

\* C3: the counts of get_status_distribution(client=None), summed over every
\* client and status, equal the number of records of get_client_vulns(client=None).
C3_DistributionSumIsRecordCount ==
    LET d == get_status_distribution(tracking, vulnerabilities, "", 0)
    IN sum_over(d, DOMAIN d) = Len(all_records)

\* two pairs are counted, one of which has two rows of different statuses
C3_Witness ==
    /\ Len(all_records) = 2
    /\ Cardinality(joined_rows(tracking, vulnerabilities)) = 3
    /\ \E pair \in joined_pairs :
          Cardinality({ r.status : r \in pair_rows(pair[1], pair[2]) }) = 2
    /\ LET d == get_status_distribution(tracking, vulnerabilities, "", 0)
       IN sum_over(d, DOMAIN d) = 2

-----------------------------------------------------------------------------
(* SpecDates: one bulletin tracked for one client while the clock advances:  *)
(* row and form updates with and without a treatment date, and the rollover *)

DatedTrackInputs == { <<"B1", "CVE-1", "Acme">>, <<"B1", "CVE-2", "Acme">> }

\* the treatment dates given to update_client_vuln: none, or 2024-03-01
DateInputs == {0, Date(2024, 3, 1)}

NextDates ==
    \/ insert_vulnerability("B1", CVEs, release_date("B1"), default_processing_time)
    \/ \E k \in DatedTrackInputs :
          /\ nextId <= MaxDatedRows
          /\ insert_client_tracking(k[1], k[2], k[3], "SOC Team", "c0")
    \/ \E r \in tracking, st \in DatedStatusInputs, d \in DateInputs :
          update_client_vuln(r.id, st, "c0", d)
    \/ \E r \in tracking, st \in DatedStatusInputs :
          tracker_post(r.id, st, "c0", Date(2024, 3, 1), "SOC Team")
    \/ update_daily_treatment_dates
    \/ tick

SpecDates == Init /\ [][NextDates]_vars

-----------------------------------------------------------------------------
(* SpecRequests: the same writes, with the requests that make the           *)
(* consolidated read: the tracker page, the export and the SLA KPI          *)

NextRequests ==
    \/ NextDates
    \/ \E m \in MonthInputs : tracker_get("", m)
    \/ export_single_client("Acme", 0, 0)
    \/ \E m \in MonthInputs : kpi_sla_compliance("", m)

SpecRequests == Init /\ [][NextRequests]_vars

-----------------------------------------------------------------------------
(* Claims on treatment dates and the rollover, checked under SpecDates *)

\* the latest treatment date of a non-empty set of rows
latest_date(rows) ==
    CHOOSE d \in { r.Date_de_traitement : r \in rows } :
        \A r \in rows : r.Date_de_traitement <= d

\* C4: in every consolidated record, when the resolved status is a closed
\* variant the treatment date is the latest among the group's closed rows;
\* when it is Open, WIP, Pending or NOK it is the latest among the group's
\* rows that are not closed, or the latest among all rows when no row is
\* non-closed.  For rows {CVE-1: Clos (Traite), 2024-03-01; CVE-2: Open,
\* 2024-02-20} the record has status Open and treatment date 2024-02-20.
C4_TreatmentDateResolution ==
    LET recs == get_client_vulns(tracking, vulnerabilities, "", 0, 0)
        joined == joined_rows(tracking, vulnerabilities)
    IN \A i \in 1..Len(recs) :
          LET rows == { r \in joined : /\ r.id_bulletin = recs[i].id_bulletin
                                       /\ r.client = recs[i].client }
              closed == { r \in rows : r.status \in closed_statuses }
              open == rows \ closed
          IN /\ recs[i].status \in closed_statuses
                  => closed # {} /\ recs[i].Date_de_traitement = latest_date(closed)
             /\ recs[i].status \in open_statuses
                  => recs[i].Date_de_traitement =
                        IF open # {} THEN latest_date(open) ELSE latest_date(rows)
             /\ ( { <<r.cve_id, r.status, r.Date_de_traitement>> : r \in rows }
                    = { <<"CVE-1", "Clos (Traite)", Date(2024, 3, 1)>>,
                        <<"CVE-2", "Open", Date(2024, 2, 20)>> }
                  => /\ recs[i].status = "Open"
                     /\ recs[i].Date_de_traitement = Date(2024, 2, 20) )

\* the group {CVE-1: Clos (Traite), 2024-03-01; CVE-2: Open, 2024-02-20} has
\* been consolidated
C4_Witness ==
    LET recs == get_client_vulns(tracking, vulnerabilities, "", 0, 0)
    IN /\ { <<r.cve_id, r.status, r.Date_de_traitement>> :
              r \in joined_rows(tracking, vulnerabilities) }
            = { <<"CVE-1", "Clos (Traite)", Date(2024, 3, 1)>>,
                <<"CVE-2", "Open", Date(2024, 2, 20)>> }
       /\ Len(recs) = 1
       /\ recs[1].Date_de_traitement = Date(2024, 2, 20)

\* C5 as stated: in every consolidated record, the treatment date is the
\* latest treatment date among the rows of the group whose status equals the
\* record's resolved status.
C5_DateAmongRowsOfResolvedStatus ==
    LET recs == get_client_vulns(tracking, vulnerabilities, "", 0, 0)
        joined == joined_rows(tracking, vulnerabilities)
    IN \A i \in 1..Len(recs) :
          LET same == { r \in joined : /\ r.id_bulletin = recs[i].id_bulletin
                                       /\ r.client = recs[i].client
                                       /\ r.status = recs[i].status }
          IN recs[i].Date_de_traitement = latest_date(same)

\* C5 amended: in every consolidated record, the treatment date is the latest
\* treatment date among the rows of the group that are closed when the
\* resolved status is a closed variant, and among the rows that are not
\* closed otherwise (in a group with one Open row and one WIP row, the later
\* of the two rows' dates).
C5_DateAmongRowsOfResolvedClass ==
    LET recs == get_client_vulns(tracking, vulnerabilities, "", 0, 0)
        joined == joined_rows(tracking, vulnerabilities)
    IN \A i \in 1..Len(recs) :
          LET class == { r \in joined :
                           /\ r.id_bulletin = recs[i].id_bulletin
                           /\ r.client = recs[i].client
                           /\ (r.status \in closed_statuses)
                                <=> (recs[i].status \in closed_statuses) }
          IN class # {} /\ recs[i].Date_de_traitement = latest_date(class)

\* a group with one Open row and one WIP row whose date is later than the
\* Open row's has been consolidated to Open with the WIP row's date
C5_Witness ==
    LET recs == get_client_vulns(tracking, vulnerabilities, "", 0, 0)
        joined == joined_rows(tracking, vulnerabilities)
    IN /\ Len(recs) = 1
       /\ recs[1].status = "Open"
       /\ \E o \in joined, w \in joined :
             /\ joined = {o, w}
             /\ o.status = "Open" /\ w.status = "WIP"
             /\ o.Date_de_traitement < w.Date_de_traitement
             /\ recs[1].Date_de_traitement = w.Date_de_traitement

\* a tracking row with its treatment date replaced
with_date(r, d) == [r EXCEPT !.Date_de_traitement = d]

\* C6: after update_daily_treatment_dates runs on day d, every tracking row
\* whose status is Open, WIP, Pending or NOK has treatment date d and every
\* row whose status is a closed variant has the date it had before; no
\* status and no comment changes, and no row is inserted or deleted.
C6_RolloverFrame ==
    [][ update_daily_treatment_dates =>
          /\ \A r \in tracking :
                IF r.status \in open_statuses
                THEN with_date(r, today) \in tracking'
                ELSE r \in tracking'
          /\ \A n \in tracking' :
                \E r \in tracking :
                   n = IF r.status \in open_statuses THEN with_date(r, today) ELSE r
          /\ Cardinality(tracking') = Cardinality(tracking)
          /\ vulnerabilities' = vulnerabilities
          /\ nextId' = nextId ]_vars

\* on a later day than the first, the store holds an open row dated today
\* and a closed row dated another day
C6_Witness ==
    /\ today # FirstDay
    /\ \E r \in tracking : r.status \in open_statuses /\ r.Date_de_traitement = today
    /\ \E r \in tracking : r.status \in closed_statuses /\ r.Date_de_traitement # today

\* C7: applying update_daily_treatment_dates again on the same calendar day
\* leaves the store in the state reached after applying it once (so N >= 2
\* applications give the state of one).
C7_RolloverIdempotent ==
    [][ update_daily_treatment_dates =>
          /\ rollover(tracking', today') = tracking'
          /\ rollover(rollover(tracking, today), today) = rollover(tracking, today) ]_vars

\* on the second day the store holds an open row already dated today, an
\* open row dated earlier, and a closed row
C7_Witness ==
    /\ today # FirstDay
    /\ \E r \in tracking : r.status \in closed_statuses
    /\ \E r \in tracking : r.status \in open_statuses /\ r.Date_de_traitement = today

-----------------------------------------------------------------------------
(* Claims on the requests, checked under SpecRequests *)

\* C8: every consolidated read is preceded by the rollover in its request
\* (tracker page, export, SLA KPI), so every record returned with a resolved
\* status of Open, WIP, Pending or NOK carries the current calendar date as
\* treatment date.
C8_ReadsReturnCurrentDates ==
    (response.kind \in {"tracker", "export", "sla_compliance"} /\ ~response.error)
      => \A i \in 1..Len(response.rows) :
            response.rows[i].status \in open_statuses
              => response.rows[i].Date_de_traitement = today

-----------------------------------------------------------------------------
(* SpecSla: a store of one closed tracking row whose release date, treatment *)
(* date and processing time are drawn from texts that parse, texts that do  *)
(* not, and None; the export request reads it                               *)

\* None, '', 2023-02-29 (no calendar date), and dates around a year's end, a
\* leap day and the 15/16 days boundary
SlaDateInputs ==
    { NoneVal, 0, Date(2023, 2, 29), Date(2023, 12, 31), Date(2024, 1, 1),
      Date(2024, 1, 16), Date(2024, 1, 17), Date(2024, 2, 29), Date(2024, 3, 1) }

\* processing times (days), and None
SlaTimeInputs == { 0, 15, 60, NoneVal }

InitSla ==
    \E ds \in SlaDateInputs, dt \in SlaDateInputs, pt \in SlaTimeInputs :
       /\ inflight = [i \in Requests |-> idle_request]
       /\ vulnerabilities = { [id_bulletin |-> "B1", cve_id |-> "CVE-1",
                               Date_de_sortie |-> ds, processing_time |-> pt] }
       /\ tracking = { [id |-> 1, id_bulletin |-> "B1", cve_id |-> "CVE-1",
                        client |-> "Acme", status |-> "Clos (Traite)",
                        Responsable_resolution |-> "SOC Team",
                        Date_de_traitement |-> dt, comment |-> "c0"] }
       /\ nextId = 2
       /\ today = FirstDay
       /\ response = no_response

NextSla ==
    \/ export_single_client("Acme", 0, 0)
    \/ kpi_sla_compliance("", 0)

SpecSla == InitSla /\ [][NextSla]_vars

-----------------------------------------------------------------------------
(* Claims on calculate_age_and_sla, checked under SpecSla *)

RECURSIVE days_from_to(_, _)
\* the number of calendar days to step from date a to date b (negative when
\* b is before a), counted one day at a time
days_from_to(a, b) ==
    IF a = b THEN 0
    ELSE IF a < b THEN 1 + days_from_to(next_day(a), b)
    ELSE 0 - days_from_to(b, a)

\* the records of the response of a request that made the consolidated read
served_rows ==
    IF response.kind \in {"export", "sla_compliance"} /\ ~response.error
    THEN response.rows ELSE <<>>

\* C9: for every pair of parseable dates and every integer processing_time,
\* age_days is the treatment date minus the release date in whole days
\* (negative when treatment predates release) and the verdict is 'Hors delai
\* de remediation' exactly when age_days > processing_time, 'Traite dans le
\* delai' otherwise; release 2024-01-01 with processing time 15 gives 15 days
\* within the delay on 2024-01-16 and 16 days out of it on 2024-01-17.
C9_AgeAndVerdict ==
    \A i \in 1..Len(served_rows) :
       LET r == served_rows[i]
       IN ( /\ strptime_ok(r.Date_de_sortie)
            /\ strptime_ok(r.Date_de_traitement)
            /\ r.processing_time # NoneVal )
          => /\ r.age_alerte = days_from_to(r.Date_de_sortie, r.Date_de_traitement)
             /\ r.sla = IF r.age_alerte > r.processing_time
                        THEN "Hors delai de remediation"
                        ELSE "Traite dans le delai"
             /\ ( r.Date_de_sortie = Date(2024, 1, 1) /\ r.processing_time = 15
                  /\ r.Date_de_traitement = Date(2024, 1, 16)
                    => r.age_alerte = 15 /\ r.sla = "Traite dans le delai" )
             /\ ( r.Date_de_sortie = Date(2024, 1, 1) /\ r.processing_time = 15
                  /\ r.Date_de_traitement = Date(2024, 1, 17)
                    => r.age_alerte = 16 /\ r.sla = "Hors delai de remediation" )

\* a record at the boundary age_days = processing_time = 15 has been served
C9_Witness ==
    /\ Len(served_rows) = 1
    /\ served_rows[1].Date_de_sortie = Date(2024, 1, 1)
    /\ served_rows[1].Date_de_traitement = Date(2024, 1, 16)
    /\ served_rows[1].processing_time = 15
    /\ served_rows[1].age_alerte = 15
    /\ served_rows[1].sla = "Traite dans le delai"

\* C10: calculate_age_and_sla returns for every input and never raises; when
\* either date is missing or does not parse as YYYY-MM-DD the result is
\* age_days = 0 with verdict 'N/A'; and the record of a row with such a
\* verdict is in the consolidated output.
C10_TotalWithUnknownVerdict ==
    /\ \A v \in vulnerabilities, t \in tracking :
          LET res == calculate_age_and_sla(v.Date_de_sortie, t.Date_de_traitement,
                                           v.processing_time)
          IN /\ ~res.raised
             /\ (~strptime_ok(v.Date_de_sortie) \/ ~strptime_ok(t.Date_de_traitement))
                  => res.age_days = 0 /\ res.sla_status = "N/A"
    /\ response.kind \in {"export", "sla_compliance"}
         => /\ ~response.error
            /\ Len(response.rows) = Cardinality(tracking)
            /\ \A i \in 1..Len(response.rows) :
                  (~strptime_ok(response.rows[i].Date_de_sortie)
                     \/ ~strptime_ok(response.rows[i].Date_de_traitement))
                    => /\ response.rows[i].age_alerte = 0
                       /\ response.rows[i].sla = "N/A"

\* the record of a row whose treatment date is missing has been served with
\* the verdict 'N/A'
C10_Witness ==
    /\ Len(served_rows) = 1
    /\ served_rows[1].Date_de_traitement = NoneVal
    /\ strptime_ok(served_rows[1].Date_de_sortie)
    /\ served_rows[1].sla = "N/A"
    /\ served_rows[1].age_alerte = 0

-----------------------------------------------------------------------------
(* get_open_vs_closed *)

\* the rows of the query of get_open_vs_closed: the SELECT, filters and
\* GROUP BY t.client, t.id_bulletin of get_status_distribution's query
open_vs_closed_rows(trk, vul, client, month) ==
    LET sel == { r \in joined_rows(trk, vul) :
                   /\ (client # "" => r.client = client)
                   /\ (month > 0 => sql_month(r.Date_de_sortie) = month) }
        keys == { <<r.client, r.id_bulletin>> : r \in sel }
    IN { [client |-> k[1], id_bulletin |-> k[2],
          status |-> sql_min_status({ r.status : r \in
                        { x \in sel : x.client = k[1] /\ x.id_bulletin = k[2] } })] :
         k \in keys }

\* a count that puts every status that is not closed in the 'Open' bucket
get_open_vs_closed_ongoing(trk, vul, client, month) ==
    LET rows == open_vs_closed_rows(trk, vul, client, month)
    IN [Open |-> Cardinality({ r \in rows : r.status \notin closed_statuses }),
        Clos |-> Cardinality({ r \in rows : r.status \in closed_statuses })]

\* result = {'Open': 0, 'Clos': 0}, counted over the rows of the query
get_open_vs_closed(trk, vul, client, month) ==
    LET rows == open_vs_closed_rows(trk, vul, client, month)
    IN [Open |-> Cardinality({ r \in rows : r.status = "Open" }),
        Clos |-> Cardinality({ r \in rows : r.status \in closed_statuses })]

-----------------------------------------------------------------------------
(* Claims on the KPI aggregators, checked under Spec *)

\* the client filters of the KPI requests: none, or one client
ClientFilters == {""} \cup Clients

\* C11: in get_open_vs_closed, the 'Open' bucket counts exactly the (bulletin,
\* client) groups that the priority rule resolves to Open and the 'Clos'
\* bucket exactly the groups it resolves to a closed variant, so that a group
\* resolved to WIP, Pending or NOK is in neither bucket, for every mix of
\* per-CVE statuses inside a group.
C11_OpenVsClosedBuckets ==
    \A c \in ClientFilters :
       LET ovc == get_open_vs_closed(tracking, vulnerabilities, c, 0)
           recs == get_client_vulns(tracking, vulnerabilities, c, 0, 0)
       IN /\ ovc.Open = Cardinality({ i \in 1..Len(recs) : recs[i].status = "Open" })
          /\ ovc.Clos = Cardinality({ i \in 1..Len(recs) :
                                        recs[i].status \in closed_statuses })

-----------------------------------------------------------------------------
(* Python float arithmetic (IEEE 754 binary64, round to nearest, ties to     *)
(* even) for treatment_percentage = round((total_closed / total) * 100).     *)
(* A positive float is [mant, k]: mant is the sequence of its 53             *)
(* significand bits, most significant first, and its value is the integer    *)
(* mant times 2^(-k).                                                        *)

\* the number of significand bits of a binary64 float
SignificandBits == 53

Front(b) == SubSeq(b, 1, Len(b) - 1)

RECURSIVE bits_to_int(_)
bits_to_int(b) == IF b = <<>> THEN 0 ELSE 2 * bits_to_int(Front(b)) + b[Len(b)]

\* the bits of the integer bits + 1
bits_inc(b) ==
    IF \A i \in 1..Len(b) : b[i] = 1
    THEN <<1>> \o [i \in 1..Len(b) |-> 0]
    ELSE LET j == CHOOSE i \in 1..Len(b) :
                     b[i] = 0 /\ \A h \in (i + 1)..Len(b) : b[h] = 1
         IN [i \in 1..Len(b) |-> IF i < j THEN b[i] ELSE IF i = j THEN 1 ELSE 0]

\* the remainder left after n binary digits of r / t, for 0 <= r < t: the
\* long division done n times, halved so that the evaluation stays shallow
\* (the remainder mid is never negative; the test makes TLC compute it first)
RECURSIVE quotient_rest(_, _, _)
quotient_rest(r, t, n) ==
    IF n = 0 THEN r
    ELSE IF n = 1 THEN 2 * r - (IF 2 * r >= t THEN t ELSE 0)
    ELSE LET h == n \div 2
             mid == quotient_rest(r, t, h)
         IN IF mid >= 0 THEN quotient_rest(mid, t, n - h) ELSE mid

\* the first n binary digits after the point of r / t, for 0 <= r < t
RECURSIVE quotient_bits(_, _, _)
quotient_bits(r, t, n) ==
    IF n = 0 THEN <<>>
    ELSE IF n = 1 THEN <<IF 2 * r >= t THEN 1 ELSE 0>>
    ELSE LET h == n \div 2
             mid == quotient_rest(r, t, h)
         IN IF mid >= 0
            THEN quotient_bits(r, t, h) \o quotient_bits(mid, t, n - h)
            ELSE <<>>

\* the number of zero digits after the point before the first one of r / t
RECURSIVE leading_zeros(_, _)
leading_zeros(r, t) == IF 2 * r >= t THEN 0 ELSE 1 + leading_zeros(2 * r, t)

\* rounding of the exact value bits * 2^(-k) (first bit 1; sticky tells that
\* the exact value has more non-zero digits below) to a float
round_to_float(bits, sticky, k) ==
    IF Len(bits) <= SignificandBits /\ ~sticky
    THEN [mant |-> bits, k |-> k]
    ELSE LET keep == SubSeq(bits, 1, SignificandBits)
             dropped == Len(bits) - SignificandBits
             round_bit == bits[SignificandBits + 1]
             below == sticky \/ \E i \in (SignificandBits + 2)..Len(bits) : bits[i] = 1
             up == round_bit = 1 /\ (below \/ keep[SignificandBits] = 1)
             m == IF up THEN bits_inc(keep) ELSE keep
         IN IF Len(m) > SignificandBits
            THEN [mant |-> Front(m), k |-> k - dropped - 1]
            ELSE [mant |-> m, k |-> k - dropped]

\* the float c / t for integers 0 < c < t
float_div(c, t) ==
    LET z == leading_zeros(c, t)
        n == z + SignificandBits + 1
    IN round_to_float(SubSeq(quotient_bits(c, t, n), z + 1, n),
                      quotient_rest(c, t, n) # 0, n)

\* the bits of a significand are multiplied in limbs of LimbBits bits
LimbBits == 10

RECURSIVE pow2(_)
pow2(p) == IF p = 0 THEN 1 ELSE 2 * pow2(p - 1)

\* the bits of the integer bits * n, most significant first, for an integer
\* 1 <= n < 2^LimbBits and bits with a first bit 1
bits_times(b, n) ==
    LET pad == (LimbBits - (Len(b) % LimbBits)) % LimbBits
        pb == [i \in 1..pad |-> 0] \o b
        nl == Len(pb) \div LimbBits
        limb == [j \in 1..nl |->
                   bits_to_int(SubSeq(pb, LimbBits * (j - 1) + 1, LimbBits * j))]
        RECURSIVE carry_into(_)
        carry_into(j) ==
            IF j = nl THEN 0
            ELSE (limb[j + 1] * n + carry_into(j + 1)) \div pow2(LimbBits)
        out == [j \in 0..nl |->
                  IF j = 0 THEN (limb[1] * n + carry_into(1)) \div pow2(LimbBits)
                  ELSE (limb[j] * n + carry_into(j)) % pow2(LimbBits)]
        all == [i \in 1..(LimbBits * (nl + 1)) |->
                  (out[(i - 1) \div LimbBits]
                     \div pow2(LimbBits - 1 - ((i - 1) % LimbBits))) % 2]
        first == CHOOSE i \in 1..Len(all) :
                    all[i] = 1 /\ \A h \in 1..(i - 1) : all[h] = 0
    IN SubSeq(all, first, Len(all))

\* the float x * n for a float x and a small integer n >= 1
float_times(x, n) == round_to_float(bits_times(x.mant, n), FALSE, x.k)

\* round(x) of Python for a float 0 < x < 2^52: the nearest integer, a tie
\* going to the even one
float_round(x) ==
    LET len == Len(x.mant)
        int_bits == IF x.k >= len THEN <<>> ELSE SubSeq(x.mant, 1, len - x.k)
        frac == IF x.k >= len
                THEN [i \in 1..(x.k - len) |-> 0] \o x.mant
                ELSE SubSeq(x.mant, len - x.k + 1, len)
        n == bits_to_int(int_bits)
        half == frac # <<>> /\ frac[1] = 1
        rest == \E i \in 2..Len(frac) : frac[i] = 1
    IN IF half /\ (rest \/ n % 2 = 1) THEN n + 1 ELSE n

\* db.py 861-865: round((total_closed / total) * 100) when total > 0, else 0,
\* for 0 <= total_closed <= total
treatment_percentage(total_closed, total) ==
    IF total > 0
    THEN IF total_closed = 0 THEN 0
         ELSE IF total_closed = total THEN 100
         ELSE float_round(float_times(float_div(total_closed, total), 100))
    ELSE 0

-----------------------------------------------------------------------------
(* get_sla_compliance, get_monthly_evolution, get_comprehensive_table *)

\* get_sla_compliance(client, month), for no month or a month that parses
get_sla_compliance(trk, vul, client, month) ==
    LET start_date == IF month = 0 THEN 0 ELSE month_start(month)
        end_date == IF month = 0 THEN 0 ELSE month_end(month)
    IN sla_counts(get_client_vulns(trk, vul, client, start_date, end_date))

\* whether get_sla_compliance raises: the month that does not parse, or the
\* consolidated read
get_sla_compliance_raises(trk, vul, client, month) ==
    \/ month # 0 /\ ~month_ok(month)
    \/ /\ month = 0 \/ month_ok(month)
       /\ get_client_vulns_raises(trk, vul, client,
                                  IF month = 0 THEN 0 ELSE month_start(month),
                                  IF month = 0 THEN 0 ELSE month_end(month))

\* SQLite date('now', '-n months'): the month is moved back, and a day past
\* the end of the resulting month overflows into the next month
sql_date_minus_months(now, n) ==
    LET total == year_of(now) * 12 + (month_of(now) - 1) - n
        y == total \div 12
        m == (total % 12) + 1
        d == day_of(now)
    IN IF d <= days_in_month(y, m) THEN Date(y, m, d)
       ELSE IF m < 12 THEN Date(y, m + 1, d - days_in_month(y, m))
       ELSE Date(y + 1, 1, d - days_in_month(y, m))

\* GROUP BY strftime('%Y-%m', v.Date_de_sortie), t.client, t.id_bulletin with
\* MIN(t.status), over the selected joined rows
monthly_groups(sel) ==
    LET keys == { <<sql_month(r.Date_de_sortie), r.client, r.id_bulletin>> : r \in sel }
    IN { [month |-> k[1], client |-> k[2], id_bulletin |-> k[3],
          status |-> sql_min_status({ r.status : r \in
                        { x \in sel : /\ sql_month(x.Date_de_sortie) = k[1]
                                      /\ x.client = k[2]
                                      /\ x.id_bulletin = k[3] } })] :
         k \in keys }

\* the rows of the query of get_monthly_evolution; selected_months is the set
\* of the months asked for, empty when none is (then the last 6 months)
monthly_evolution_rows(trk, vul, client, selected_months, now) ==
    monthly_groups({ r \in joined_rows(trk, vul) :
        /\ (client # "" => r.client = client)
        /\ IF selected_months # {}
           THEN /\ sql_month(r.Date_de_sortie) # NoneVal
                /\ sql_month(r.Date_de_sortie) \in selected_months
           ELSE /\ r.Date_de_sortie # NoneVal
                /\ r.Date_de_sortie >= sql_date_minus_months(now, 6) })

\* the counts of one month by status: an entry for each status met in it
month_status_counts(rows, month) ==
    [st \in { r.status : r \in { x \in rows : x.month = month } } |->
        Cardinality({ r \in rows : r.month = month /\ r.status = st })]

\* the counts of a month left as they were counted
evolution_not_filled(counts, all_statuses) == counts

\* db.py 634-638: every status of all_statuses missing in the month gets 0
evolution_zero_fill(counts, all_statuses) ==
    [st \in (DOMAIN counts) \cup all_statuses |->
        IF st \in DOMAIN counts THEN counts[st] ELSE 0]

\* the dict get_monthly_evolution returns; 'months' and 'statuses' are sorted
\* lists in the code, kept here as the sets of their elements
get_monthly_evolution(trk, vul, client, selected_months, now) ==
    LET rows == monthly_evolution_rows(trk, vul, client, selected_months, now)
        all_statuses == { r.status : r \in rows }
        all_months == { r.month : r \in rows }
    IN [months |-> all_months,
        statuses |-> all_statuses,
        total_months |-> Cardinality(all_months),
        data |-> [m \in all_months |->
                    [statuses |-> evolution_zero_fill(month_status_counts(rows, m),
                                                      all_statuses)]]]

\* a query that keeps the bulletins of the last six months when no month is
\* selected, as get_monthly_evolution does
comprehensive_rows_last_months(trk, vul, client, selected_months) ==
    monthly_groups({ r \in joined_rows(trk, vul) :
        /\ (client # "" => r.client = client)
        /\ IF selected_months # {}
           THEN /\ sql_month(r.Date_de_sortie) # NoneVal
                /\ sql_month(r.Date_de_sortie) \in selected_months
           ELSE /\ r.Date_de_sortie # NoneVal
                /\ r.Date_de_sortie >= sql_date_minus_months(FirstDay, 6) })

\* the rows of the query of get_comprehensive_table: no month filter when no
\* month is selected
comprehensive_rows(trk, vul, client, selected_months) ==
    monthly_groups({ r \in joined_rows(trk, vul) :
        /\ (client # "" => r.client = client)
        /\ selected_months # {}
             => /\ sql_month(r.Date_de_sortie) # NoneVal
                /\ sql_month(r.Date_de_sortie) \in selected_months })

\* sorted(all_months) raises TypeError when a month is None (a release date
\* that strftime does not take) next to a month that is a text
get_comprehensive_table_raises(trk, vul, client, selected_months) ==
    LET months == { r.month : r \in comprehensive_rows(trk, vul, client, selected_months) }
    IN NoneVal \in months /\ months # {NoneVal}

\* the keys that months_data[month]['statut'] is created with (db.py 821-831):
\* seven statuses, 'Clos' not among them, and the two aggregates
statut_keys ==
    {"Open", "WIP", "Pending", "Clos (Patch cumulative)", "Clos (Non concerne)",
     "Clos (Traite)", "NOK", "Alertes cloturees", "Alertes en cours"}

\* months_data[month]['statut'] after the loop over the rows: a status counter
\* is incremented only if the status is a key of the dict (db.py 844-845), the
\* aggregates by closed_statuses and ongoing_statuses (db.py 850-855)
month_statut(rows, m) ==
    LET mine == { r \in rows : r.month = m }
    IN [k \in statut_keys |->
          IF k = "Alertes cloturees"
          THEN Cardinality({ r \in mine : r.status \in closed_statuses })
          ELSE IF k = "Alertes en cours"
          THEN Cardinality({ r \in mine : r.status \in open_statuses })
          ELSE Cardinality({ r \in mine : r.status = k })]

\* the 'statut' dict of each month of the result of get_comprehensive_table
comprehensive_statut(trk, vul, client, selected_months) ==
    LET rows == comprehensive_rows(trk, vul, client, selected_months)
    IN [m \in { r.month : r \in rows } |-> month_statut(rows, m)]

\* total_vulnerabilities, total_closed and total_ongoing of each month of the
\* result of get_comprehensive_table (db.py 847-855)
comprehensive_totals(trk, vul, client, selected_months) ==
    LET rows == comprehensive_rows(trk, vul, client, selected_months)
    IN [m \in { r.month : r \in rows } |->
          LET mine == { r \in rows : r.month = m }
          IN [total_vulnerabilities |-> Cardinality(mine),
              total_closed |->
                  Cardinality({ r \in mine : r.status \in closed_statuses }),
              total_ongoing |->
                  Cardinality({ r \in mine : r.status \in open_statuses })]]

\* the dict get_comprehensive_table returns: 'months' as a set, and of each
\* month's entry the totals and the percentage
get_comprehensive_table(trk, vul, client, selected_months) ==
    LET rows == comprehensive_rows(trk, vul, client, selected_months)
        all_months == { r.month : r \in rows }
        entry(m) ==
            LET mine == { r \in rows : r.month = m }
                total == Cardinality(mine)
                closed == Cardinality({ r \in mine : r.status \in closed_statuses })
                ongoing == Cardinality({ r \in mine : r.status \in open_statuses })
            IN [total_vulnerabilities |-> total,
                total_closed |-> closed,
                total_ongoing |-> ongoing,
                treatment_percentage |-> treatment_percentage(closed, total)]
    IN [months |-> all_months, data |-> [m \in all_months |-> entry(m)]]

-----------------------------------------------------------------------------
(* SpecKpi: three bulletins released in two months, one of them possibly     *)
(* ingested with an empty release date, tracked for two clients and closed   *)

\* the number of rows the store receives where the KPI aggregators are read
MaxKpiRows == 2

KpiBulletins == {"B1", "B2", "B3"}

\* Date_de_sortie of the bulletins: B1 and B3 on the same day of February
\* 2024, B2 in January 2024, in January 2023 (more than six months before
\* FirstDay) or without a date ('')
KpiReleaseInputs(id_bulletin) ==
    IF id_bulletin \in {"B1", "B3"} THEN {Date(2024, 2, 16)}
    ELSE {Date(2024, 1, 15), Date(2023, 1, 15), 0}

\* data.get('processing_time', 5): B3 is given 3 days, the others the default
KpiProcessingTime(id_bulletin) ==
    IF id_bulletin = "B3" THEN 3 ELSE default_processing_time

KpiTrackInputs ==
    { <<"B1", "CVE-1", "Acme">>, <<"B1", "CVE-1", "Beta">>, <<"B3", "CVE-1", "Acme">>,
      <<"B2", "CVE-1", "Acme">> }

KpiStatusInputs == {"Open", "Clos (Traite)"}

\* the months selected in the requests: none, and sets of months with and
\* without bulletins
SelectedMonthsInputs == { {}, {202402}, {202401, 202402}, {202403}, {202402, 202403} }

NextKpi ==
    \/ \E b \in KpiBulletins : \E d \in KpiReleaseInputs(b) :
          insert_vulnerability(b, {"CVE-1"}, d, KpiProcessingTime(b))
    \/ \E k \in KpiTrackInputs :
          /\ nextId <= MaxKpiRows
          /\ insert_client_tracking(k[1], k[2], k[3], "SOC Team", "c0")
    \/ \E r \in tracking, st \in KpiStatusInputs :
          update_client_vuln(r.id, st, "c0", 0)

SpecKpi == Init /\ [][NextKpi]_vars

-----------------------------------------------------------------------------
(* Claims on the KPI aggregators, checked under SpecKpi *)

MonthFilters == {0, 202401, 202402}

\* the number of the records of a consolidated result with the SLA verdict v
verdict_count(records, v) ==
    Cardinality({ i \in 1..Len(records) : records[i].sla = v })

\* C12: for every client filter and month, get_sla_compliance counts as within
\* the records of get_client_vulns over the month whose verdict is within the
\* delay, as breached those whose verdict is breached, and the records with
\* the verdict N/A in neither: within + breached = records - N/A records
C12_SlaComplianceCounts ==
    \A c \in ClientFilters, m \in MonthFilters :
        ~get_sla_compliance_raises(tracking, vulnerabilities, c, m) =>
            LET records == get_client_vulns(tracking, vulnerabilities, c,
                               IF m = 0 THEN 0 ELSE month_start(m),
                               IF m = 0 THEN 0 ELSE month_end(m))
                res == get_sla_compliance(tracking, vulnerabilities, c, m)
            IN /\ res.within = verdict_count(records, "Traite dans le delai")
               /\ res.breached = verdict_count(records, "Hors delai de remediation")
               /\ res.within + res.breached
                    = Len(records) - verdict_count(records, "N/A")

\* a store with a record of verdict N/A and a breached one: the first is
\* counted in neither bucket
C12_Witness ==
    /\ ~get_sla_compliance_raises(tracking, vulnerabilities, "", 0)
    /\ LET records == get_client_vulns(tracking, vulnerabilities, "", 0, 0)
       IN /\ Len(records) = 2
          /\ verdict_count(records, "N/A") = 1
          /\ get_sla_compliance(tracking, vulnerabilities, "", 0)
               = [within |-> 0, breached |-> 1]

\* the order of the claim C13 between two records: release date descending,
\* then bulletin id ascending, then client ascending
record_before(a, b) ==
    \/ a.Date_de_sortie > b.Date_de_sortie
    \/ /\ a.Date_de_sortie = b.Date_de_sortie
       /\ text_lt(a.id_bulletin, b.id_bulletin)
    \/ /\ a.Date_de_sortie = b.Date_de_sortie
       /\ a.id_bulletin = b.id_bulletin
       /\ text_lt(a.client, b.client)

\* C13: for every store and every filter, the records of get_client_vulns come
\* by release date descending, then bulletin id ascending, then client
\* ascending: each record is strictly before every later one in that order
C13_RecordsOrdered ==
    \A c \in ClientFilters, m \in MonthFilters :
        LET start_date == IF m = 0 THEN 0 ELSE month_start(m)
            end_date == IF m = 0 THEN 0 ELSE month_end(m)
        IN ~get_client_vulns_raises(tracking, vulnerabilities, c, start_date, end_date) =>
             LET records == get_client_vulns(tracking, vulnerabilities, c,
                                             start_date, end_date)
             IN \A i \in 1..Len(records), j \in 1..Len(records) :
                    i < j => record_before(records[i], records[j])

\* two records of the same release date and bulletin, in the order of their
\* clients, which is not the order in which their rows were inserted
C13_Witness ==
    /\ ~get_client_vulns_raises(tracking, vulnerabilities, "", 0, 0)
    /\ LET records == get_client_vulns(tracking, vulnerabilities, "", 0, 0)
       IN /\ Len(records) = 2
          /\ records[1].id_bulletin = "B1" /\ records[1].client = "Acme"
          /\ records[2].id_bulletin = "B1" /\ records[2].client = "Beta"
          /\ records[1].id > records[2].id

-----------------------------------------------------------------------------
(* SpecComments: the rows of one bulletin and client updated one by one with *)
(* a status, a comment and a treatment date                                  *)

CommentStatusInputs == {"WIP", "Clos (Traite)"}

CommentInputs == {"c0", "c1"}

NextComments ==
    \/ insert_vulnerability("B1", CVEs, release_date("B1"), default_processing_time)
    \/ \E k \in DatedTrackInputs :
          /\ nextId <= MaxDatedRows
          /\ insert_client_tracking(k[1], k[2], k[3], "SOC Team", "c0")
    \/ \E r \in tracking, st \in CommentStatusInputs, c \in CommentInputs,
          d \in DateInputs :
          update_client_vuln(r.id, st, c, d)

SpecComments == Init /\ [][NextComments]_vars

\* the joined rows of the group of a consolidated record
rows_of_record(rec) ==
    { r \in joined_rows(tracking, vulnerabilities) :
        r.id_bulletin = rec.id_bulletin /\ r.client = rec.client }

\* the rows the claim C14 takes the comment from: the closed rows when the
\* record is closed, else the rows whose status is the record's status
comment_candidates(rec) ==
    IF rec.status \in closed_statuses
    THEN { r \in rows_of_record(rec) : r.status \in closed_statuses }
    ELSE { r \in rows_of_record(rec) : r.status = rec.status }

\* C14: the comment of a consolidated record is the comment of a row of latest
\* treatment date among the closed rows (closed resolution), or among the rows
\* whose status is the resolved status (any other resolution)
C14_CommentOfLatestRow ==
    ~get_client_vulns_raises(tracking, vulnerabilities, "", 0, 0) =>
        LET records == get_client_vulns(tracking, vulnerabilities, "", 0, 0)
        IN \A i \in 1..Len(records) :
              \E r \in comment_candidates(records[i]) :
                  /\ \A o \in comment_candidates(records[i]) :
                        o.Date_de_traitement <= r.Date_de_traitement
                  /\ records[i].comment = r.comment

-----------------------------------------------------------------------------
(* Claims on get_comprehensive_table, checked under SpecKpi *)

\* C15: for every selected month without a record, get_comprehensive_table
\* does not raise and its result holds an entry for the month whose
\* treatment_percentage is 0
C15_EmptyMonthHasZeroEntry ==
    \A c \in ClientFilters, sel \in SelectedMonthsInputs :
        \A m \in sel :
            (~\E r \in joined_rows(tracking, vulnerabilities) :
                  /\ (c # "" => r.client = c)
                  /\ sql_month(r.Date_de_sortie) = m)
            => /\ ~get_comprehensive_table_raises(tracking, vulnerabilities, c, sel)
               /\ LET res == get_comprehensive_table(tracking, vulnerabilities, c, sel)
                  IN /\ m \in res.months
                     /\ res.data[m].treatment_percentage = 0

-----------------------------------------------------------------------------
(* SpecPercent: the percentage of get_comprehensive_table as a function of  *)
(* the two totals of a month entry                                           *)

\* the greatest total_vulnerabilities of a month entry
MaxPairs == 40

\* a month entry after the loop over the rows: the totals are counted, the
\* percentage is not yet computed
InitPercent ==
    /\ inflight = [i \in Requests |-> idle_request]
    /\ vulnerabilities = {}
    /\ tracking = {}
    /\ nextId = 1
    /\ today = FirstDay
    /\ \E total \in 1..MaxPairs : \E closed \in 0..total :
          response = [kind |-> "month_data", total_vulnerabilities |-> total,
                      total_closed |-> closed, treatment_percentage |-> NoneVal]

\* db.py 859-865: month_data['treatment_percentage'] = ...
compute_treatment_percentage ==
    /\ response.kind = "month_data"
    /\ response.treatment_percentage = NoneVal
    /\ response' = [response EXCEPT !.treatment_percentage =
                      treatment_percentage(response.total_closed,
                                           response.total_vulnerabilities)]
    /\ UNCHANGED <<inflight, vulnerabilities, tracking, nextId, today>>

NextPercent == compute_treatment_percentage

SpecPercent == InitPercent /\ [][NextPercent]_vars

\* Python's round of the exact quotient num / den of two integers, den > 0:
\* the nearest integer, the even one of the two when num / den is halfway
round_half_even(num, den) ==
    LET q == num \div den
        rest == num % den
    IN IF 2 * rest < den THEN q
       ELSE IF 2 * rest > den THEN q + 1
       ELSE IF q % 2 = 0 THEN q ELSE q + 1

\* C16: the treatment_percentage of a month entry with total_vulnerabilities
\* > 0 is round(100 * total_closed / total_vulnerabilities), an integer
\* between 0 and 100
C16_PercentageIsRoundedRatio ==
    (response.kind = "month_data" /\ response.treatment_percentage # NoneVal) =>
        /\ response.treatment_percentage \in 0..100
        /\ response.treatment_percentage
             = round_half_even(100 * response.total_closed,
                               response.total_vulnerabilities)

-----------------------------------------------------------------------------
(* Claims on get_monthly_evolution, checked under SpecKpi *)

\* C17: in the result of get_monthly_evolution, the status map of every
\* returned month has an entry for every status of 'statuses': the number of
\* the (client, bulletin) pairs of the month with that status, 0 when none
C17_EveryStatusInEveryMonth ==
    \A c \in ClientFilters, sel \in SelectedMonthsInputs :
        LET res == get_monthly_evolution(tracking, vulnerabilities, c, sel, today)
            rows == monthly_evolution_rows(tracking, vulnerabilities, c, sel, today)
        IN \A m \in res.months : \A st \in res.statuses :
              /\ st \in DOMAIN res.data[m].statuses
              /\ res.data[m].statuses[st]
                   = Cardinality({ r \in rows : r.month = m /\ r.status = st })

\* two months and two statuses are returned, and a month has no pair with one
\* of the statuses: its entry for that status is 0
C17_Witness ==
    LET res == get_monthly_evolution(tracking, vulnerabilities, "", {}, today)
    IN /\ res.months = {202401, 202402}
       /\ res.statuses = {"Open", "Clos (Traite)"}
       /\ res.data[202401].statuses["Open"] = 0
       /\ res.data[202401].statuses["Clos (Traite)"] = 1
       /\ res.data[202402].statuses["Open"] = 1
       /\ res.data[202402].statuses["Clos (Traite)"] = 0

-----------------------------------------------------------------------------
(* SpecFilters: the tracker page and the KPI endpoints asked with a month    *)
(* filter that is no month, while rows are written and the clock advances    *)

\* GET /api/kpi/status_distribution: get_status_distribution(client, month);
\* the month goes into the query as it is given
kpi_status_distribution(client, month) ==
    /\ response' = [kind |-> "status_distribution", error |-> FALSE, rows |-> <<>>,
                    data |-> get_status_distribution(tracking, vulnerabilities,
                                                     client, month)]
    /\ UNCHANGED <<inflight, vulnerabilities, tracking, nextId, today>>

\* a month filter that is no month of the calendar: '2024-13'
MalformedMonth == 202413

FilterMonthInputs == MonthInputs \cup {MalformedMonth}

NextFilters ==
    \/ NextDates
    \/ \E m \in FilterMonthInputs : tracker_get("", m)
    \/ \E m \in FilterMonthInputs : kpi_sla_compliance("", m)
    \/ \E m \in FilterMonthInputs : kpi_status_distribution("", m)

SpecFilters == Init /\ [][NextFilters]_vars

\* C18: a request of the tracker page or of a KPI endpoint with a malformed
\* month leaves the store as it was: no rollover, no write
C18_MalformedMonthStoreUntouched ==
    [][(\/ tracker_get("", MalformedMonth)
        \/ kpi_sla_compliance("", MalformedMonth)
        \/ kpi_status_distribution("", MalformedMonth))
       => /\ tracking' = tracking
          /\ vulnerabilities' = vulnerabilities]_vars

-----------------------------------------------------------------------------
(* Claims on tracking rows without a fact, checked under SpecKpi *)

\* the tracking rows whose (bulletin, CVE) has a fact
matched_tracking ==
    { t \in tracking : \E v \in vulnerabilities :
          t.id_bulletin = v.id_bulletin /\ t.cve_id = v.cve_id }

\* C19: a (bulletin, client) group whose tracking rows have no fact gives no
\* record in get_client_vulns, and the read and every KPI aggregator return
\* what they return on the store without the rows that have no fact (for
\* get_comprehensive_table: the rows of its query, which its result is
\* computed from)
C19_DanglingGroupsExcluded ==
    /\ ~get_client_vulns_raises(tracking, vulnerabilities, "", 0, 0)
    /\ LET records == get_client_vulns(tracking, vulnerabilities, "", 0, 0)
       IN \A i \in 1..Len(records) :
             \E t \in matched_tracking :
                 /\ t.id_bulletin = records[i].id_bulletin
                 /\ t.client = records[i].client
    /\ \A c \in ClientFilters :
          /\ get_client_vulns(tracking, vulnerabilities, c, 0, 0)
               = get_client_vulns(matched_tracking, vulnerabilities, c, 0, 0)
          /\ \A m \in MonthFilters :
                /\ get_status_distribution(tracking, vulnerabilities, c, m)
                     = get_status_distribution(matched_tracking, vulnerabilities, c, m)
                /\ get_open_vs_closed(tracking, vulnerabilities, c, m)
                     = get_open_vs_closed(matched_tracking, vulnerabilities, c, m)
                /\ ~get_sla_compliance_raises(tracking, vulnerabilities, c, m)
                /\ get_sla_compliance(tracking, vulnerabilities, c, m)
                     = get_sla_compliance(matched_tracking, vulnerabilities, c, m)
          /\ \A sel \in SelectedMonthsInputs :
                /\ get_monthly_evolution(tracking, vulnerabilities, c, sel, today)
                     = get_monthly_evolution(matched_tracking, vulnerabilities, c, sel, today)
                /\ get_comprehensive_table_raises(tracking, vulnerabilities, c, sel)
                     = get_comprehensive_table_raises(matched_tracking, vulnerabilities, c, sel)
                /\ comprehensive_rows(tracking, vulnerabilities, c, sel)
                     = comprehensive_rows(matched_tracking, vulnerabilities, c, sel)

\* a group of rows without a fact next to a group with one: one record
C19_Witness ==
    /\ \E t \in tracking \ matched_tracking : t.id_bulletin = "B2" /\ t.client = "Acme"
    /\ Cardinality(matched_tracking) = 1
    /\ Len(get_client_vulns(tracking, vulnerabilities, "", 0, 0)) = 1
    /\ get_open_vs_closed(tracking, vulnerabilities, "", 0) = [Open |-> 0, Clos |-> 1]

-----------------------------------------------------------------------------
(* SpecRollovers: requests that run update_daily_treatment_dates at the same *)
(* time, each in two steps, on a store written before they start             *)

\* today = datetime.now().strftime('%Y-%m-%d') (db.py 280)
rollover_read_date(i) ==
    /\ inflight[i].pc = "idle"
    /\ inflight' = [inflight EXCEPT ![i] = [pc |-> "read", date |-> today]]
    /\ UNCHANGED <<vulnerabilities, tracking, nextId, today, response>>

\* conn.execute(UPDATE ..., (today,)); conn.commit() (db.py 282-287): SQLite
\* runs the statement of one connection at a time
rollover_update(i) ==
    /\ inflight[i].pc = "read"
    /\ tracking' = rollover(tracking, inflight[i].date)
    /\ inflight' = [inflight EXCEPT ![i] = [pc |-> "done", date |-> inflight[i].date]]
    /\ UNCHANGED <<vulnerabilities, nextId, today, response>>

NextRollovers ==
    \/ /\ \A i \in Requests : inflight[i].pc = "idle"
       /\ insert_vulnerability("B1", CVEs, release_date("B1"), default_processing_time)
    \/ \E k \in DatedTrackInputs :
          /\ \A i \in Requests : inflight[i].pc = "idle"
          /\ nextId <= MaxDatedRows
          /\ insert_client_tracking(k[1], k[2], k[3], "SOC Team", "c0")
    \/ \E r \in tracking, st \in DatedStatusInputs :
          /\ \A i \in Requests : inflight[i].pc = "idle"
          /\ update_client_vuln(r.id, st, "c0", 0)
    \/ \E i \in Requests : rollover_read_date(i)
    \/ \E i \in Requests : rollover_update(i)
    \/ tick

SpecRollovers == Init /\ [][NextRollovers]_vars

\* the latest date the requests have read
latest_read_date ==
    CHOOSE d \in { inflight[i].date : i \in Requests } :
        \A i \in Requests : inflight[i].date <= d

\* C20: when the concurrent requests have all finished, the store is the one a
\* single rollover leaves, whatever the order of their steps was: the rollover
\* of the latest date read
C20_ConcurrentRolloversConverge ==
    (\A i \in Requests : inflight[i].pc = "done")
        => tracking = rollover(tracking, latest_read_date)

-----------------------------------------------------------------------------
(* Claims on the writes, checked under Spec and SpecDeletes *)

\* C21: after any sequence of insert_client_tracking calls the store holds at
\* most one tracking row per (bulletin, CVE, client)
C21_OneRowPerTriple ==
    \A r \in tracking, o \in tracking :
        (/\ r.id_bulletin = o.id_bulletin
         /\ r.cve_id = o.cve_id
         /\ r.client = o.client) => r.id = o.id

\* the number of tracking rows inserted where pairs are deleted
MaxDeleteRows == 3

\* SpecDeletes: ingestion for two clients and deletion of pairs
NextDeletes ==
    \/ \E b \in Bulletins :
          insert_vulnerability(b, CVEs, release_date(b), default_processing_time)
    \/ \E k \in TrackInputs :
          /\ nextId <= MaxDeleteRows
          /\ insert_client_tracking(k[1], k[2], k[3], "SOC Team", "c0")
    \/ \E r \in tracking : delete_client_vuln_group(r.id_bulletin, r.client)

SpecDeletes == Init /\ [][NextDeletes]_vars

\* C22: after delete_client_vuln_group(b, c) no tracking row of bulletin b and
\* client c remains, get_client_vulns has no record for (b, c), and the
\* tracking rows of every other pair and every fact are unchanged
C22_DeleteGroupFrame ==
    [][ \A b \in Bulletins, c \in Clients :
          delete_client_vuln_group(b, c) =>
            /\ ~\E r \in tracking' : r.id_bulletin = b /\ r.client = c
            /\ ~get_client_vulns_raises(tracking', vulnerabilities', "", 0, 0)
            /\ LET records == get_client_vulns(tracking', vulnerabilities', "", 0, 0)
               IN ~\E i \in 1..Len(records) :
                     records[i].id_bulletin = b /\ records[i].client = c
            /\ { r \in tracking' : ~(r.id_bulletin = b /\ r.client = c) }
                 = { r \in tracking : ~(r.id_bulletin = b /\ r.client = c) }
            /\ vulnerabilities' = vulnerabilities ]_vars

\* two rows of one pair have been deleted (three ids were given, one row is
\* left), the facts of the deleted pair are still there, and the row left is
\* of the same bulletin for the other client
C22_Witness ==
    /\ nextId = 4
    /\ Cardinality(tracking) = 1
    /\ \E r \in tracking :
          /\ r.id_bulletin = "B1" /\ r.client = "Beta"
          /\ \E v \in vulnerabilities : v.id_bulletin = "B1" /\ v.cve_id = r.cve_id
    /\ Cardinality({ v \in vulnerabilities : v.id_bulletin = "B1" }) = 2

-----------------------------------------------------------------------------
(* Further claims on get_comprehensive_table, checked under SpecKpi *)

-----------------------------------------------------------------------------
(* SpecReads: the consolidated read and the KPI aggregators called again and *)
(* again while rows are written and the clock advances                       *)

\* get_monthly_trend(client, months): the pairs released in the last months
\* months, counted by month and status
get_monthly_trend(trk, vul, client, months, now) ==
    LET rows == monthly_groups({ r \in joined_rows(trk, vul) :
                    /\ (client # "" => r.client = client)
                    /\ r.Date_de_sortie # NoneVal
                    /\ r.Date_de_sortie >= sql_date_minus_months(now, months) })
    IN [m \in { r.month : r \in rows } |-> month_status_counts(rows, m)]

ReadKinds ==
    { "client_vulns", "status_distribution", "sla_compliance", "monthly_trend",
      "monthly_evolution", "open_vs_closed", "comprehensive_table" }

\* whether the read raises
read_raises(kind, trk, vul, client, selected_months) ==
    CASE kind = "client_vulns" -> get_client_vulns_raises(trk, vul, client, 0, 0)
      [] kind = "sla_compliance" -> get_sla_compliance_raises(trk, vul, client, 0)
      [] kind = "comprehensive_table" ->
            get_comprehensive_table_raises(trk, vul, client, selected_months)
      [] OTHER -> FALSE

\* what the read returns on the store (trk, vul) on the day now
read_data(kind, trk, vul, client, selected_months, now) ==
    CASE kind = "client_vulns" -> get_client_vulns(trk, vul, client, 0, 0)
      [] kind = "status_distribution" -> get_status_distribution(trk, vul, client, 0)
      [] kind = "sla_compliance" -> get_sla_compliance(trk, vul, client, 0)
      [] kind = "monthly_trend" -> get_monthly_trend(trk, vul, client, 6, now)
      [] kind = "monthly_evolution" ->
            get_monthly_evolution(trk, vul, client, selected_months, now)
      [] kind = "open_vs_closed" -> get_open_vs_closed(trk, vul, client, 0)
      [] kind = "comprehensive_table" ->
            get_comprehensive_table(trk, vul, client, selected_months)

\* the response of a read served on the day now
read_result(kind, trk, vul, client, selected_months, now) ==
    IF read_raises(kind, trk, vul, client, selected_months)
    THEN [kind |-> kind, error |-> TRUE, rows |-> <<>>, client |-> client,
          months |-> selected_months, day |-> now, data |-> <<>>]
    ELSE [kind |-> kind, error |-> FALSE, rows |-> <<>>, client |-> client,
          months |-> selected_months, day |-> now,
          data |-> read_data(kind, trk, vul, client, selected_months, now)]

\* a request that runs the rollover before it reads, as GET /tracker does
read_request_after_rollover(kind, client, selected_months) ==
    /\ tracking' = rollover(tracking, today)
    /\ response' = read_result(kind, tracking', vulnerabilities, client,
                               selected_months, today)
    /\ UNCHANGED <<inflight, vulnerabilities, nextId, today>>

\* export_single_client and GET /api/kpi/<kpi_type>: one call of the read
read_request(kind, client, selected_months) ==
    /\ response' = read_result(kind, tracking, vulnerabilities, client,
                               selected_months, today)
    /\ UNCHANGED <<inflight, vulnerabilities, tracking, nextId, today>>

\* the number of tracking rows inserted where the reads are repeated
MaxReadRows == 2

\* Date_de_sortie of the bulletins: B1 four days before FirstDay, B2 six
\* months before FirstDay to the day
ReadReleaseDate(id_bulletin) ==
    IF id_bulletin = "B1" THEN Date(2024, 2, 16) ELSE Date(2023, 8, 20)

ReadSelections == { {}, {202402} }

\* request.args.getlist('months') is read for the two kinds that take months
ReadSelectionsOf(kind) ==
    IF kind \in {"monthly_evolution", "comprehensive_table"}
    THEN ReadSelections ELSE { {} }

NextReads ==
    \/ \E b \in Bulletins :
          insert_vulnerability(b, {"CVE-1"}, ReadReleaseDate(b), default_processing_time)
    \/ \E b \in Bulletins :
          /\ nextId <= MaxReadRows
          /\ insert_client_tracking(b, "CVE-1", "Acme", "SOC Team", "c0")
    \/ \E r \in tracking : update_client_vuln(r.id, "Clos (Traite)", "c0", 0)
    \/ \E kind \in ReadKinds : \E sel \in ReadSelectionsOf(kind) :
          read_request(kind, "", sel)
    \/ tick

SpecReads == Init /\ [][NextReads]_vars

-----------------------------------------------------------------------------
(* SpecForm: a bulletin of two CVEs ingested for two clients and edited      *)
(* through the tracker form                                                  *)

\* the number of tracking rows inserted where the form is submitted
MaxFormRows == 3

FormTrackInputs ==
    { <<"B1", "CVE-1", "Acme">>, <<"B1", "CVE-2", "Acme">>, <<"B1", "CVE-1", "Beta">> }

\* the status and the treatment date of a submitted form; the form field of
\* the date may be absent, which request.form.get turns into None
FormInputs ==
    { <<"WIP", Date(2024, 3, 1)>>, <<"Clos (Traite)", Date(2024, 3, 1)>>,
      <<"Clos (Traite)", NoneVal>> }

NextForm ==
    \/ insert_vulnerability("B1", CVEs, release_date("B1"), default_processing_time)
    \/ \E k \in FormTrackInputs :
          /\ nextId <= MaxFormRows
          /\ insert_client_tracking(k[1], k[2], k[3], "SOC Team", "c0")
    \/ \E r \in tracking, f \in FormInputs :
          tracker_post(r.id, f[1], "c1", f[2], "IT Team")

SpecForm == Init /\ [][NextForm]_vars

\* C25: a tracker-form edit for row r gives every tracking row of r's bulletin
\* and client the submitted status, comment, treatment date and team, so that
\* every consolidated record of the pair that the next read returns has the
\* submitted status, and leaves the rows of every other pair unchanged
C25_FormEditsWholeGroup ==
    [][ \A r \in tracking, f \in FormInputs :
          (/\ \E n \in tracking' : /\ n.id = r.id /\ n.status = f[1]
                                    /\ n.Date_de_traitement = f[2]
                                    /\ n.comment = "c1"
           /\ tracker_post(r.id, f[1], "c1", f[2], "IT Team")) =>
            /\ \A x \in tracking :
                  IF x.id_bulletin = r.id_bulletin /\ x.client = r.client
                  THEN [x EXCEPT !.status = f[1], !.comment = "c1",
                                 !.Date_de_traitement = f[2],
                                 !.Responsable_resolution = "IT Team"] \in tracking'
                  ELSE x \in tracking'
            /\ \A n \in tracking' :
                  IF n.id_bulletin = r.id_bulletin /\ n.client = r.client
                  THEN /\ n.status = f[1] /\ n.comment = "c1"
                       /\ n.Date_de_traitement = f[2]
                       /\ n.Responsable_resolution = "IT Team"
                  ELSE n \in tracking
            /\ Cardinality(tracking') = Cardinality(tracking)
            /\ ~get_client_vulns_raises(tracking', vulnerabilities', "", 0, 0) =>
                  LET records == get_client_vulns(tracking', vulnerabilities', "", 0, 0)
                  IN \A i \in 1..Len(records) :
                        (/\ records[i].id_bulletin = r.id_bulletin
                         /\ records[i].client = r.client) =>
                           records[i].status = f[1] ]_vars

\* the two rows of (B1, Acme) hold the submitted values and the row of
\* (B1, Beta) holds what it was inserted with
C25_Witness ==
    /\ Cardinality({ r \in tracking : r.id_bulletin = "B1" /\ r.client = "Acme" }) = 2
    /\ \A r \in tracking :
          (r.id_bulletin = "B1" /\ r.client = "Acme") =>
             /\ r.status = "WIP" /\ r.comment = "c1"
             /\ r.Date_de_traitement = Date(2024, 3, 1)
             /\ r.Responsable_resolution = "IT Team"
    /\ \E r \in tracking :
          /\ r.id_bulletin = "B1" /\ r.client = "Beta"
          /\ r.status = "Open" /\ r.comment = "c0"
          /\ r.Responsable_resolution = "SOC Team"
    /\ \E v \in vulnerabilities : v.id_bulletin = "B1"

-----------------------------------------------------------------------------
(* SpecStatut: two bulletins tracked for two clients, the rows set to every  *)
(* status of the enum                                                        *)

\* the number of rows the store receives where every status is given
MaxStatutRows == 2

StatutTrackInputs ==
    { <<"B1", "CVE-1", "Acme">>, <<"B1", "CVE-1", "Beta">>, <<"B2", "CVE-1", "Acme">> }

NextStatut ==
    \/ \E b \in Bulletins :
          insert_vulnerability(b, {"CVE-1"}, release_date(b), default_processing_time)
    \/ \E k \in StatutTrackInputs :
          /\ nextId <= MaxStatutRows
          /\ insert_client_tracking(k[1], k[2], k[3], "SOC Team", "c0")
    \/ \E r \in tracking, st \in Statuses :
          update_client_vuln(r.id, st, "c0", 0)

SpecStatut == Init /\ [][NextStatut]_vars

\* the counter of a status in a 'statut' dict, 0 for a status the dict has no
\* key for
statut_counter(statut, status) ==
    IF status \in DOMAIN statut THEN statut[status] ELSE 0

\* C26: in every month entry of get_comprehensive_table, total_vulnerabilities
\* is total_closed + total_ongoing, total_closed is 'Alertes cloturees' and the
\* sum of the counters of the four closed statuses, and total_ongoing is
\* 'Alertes en cours' and the sum of the counters of Open, WIP, Pending, NOK
C26_TotalsMatchCounters ==
    \A c \in ClientFilters :
        LET statut == comprehensive_statut(tracking, vulnerabilities, c, {})
            totals == comprehensive_totals(tracking, vulnerabilities, c, {})
        IN \A m \in DOMAIN totals :
              /\ totals[m].total_vulnerabilities
                   = totals[m].total_closed + totals[m].total_ongoing
              /\ totals[m].total_closed = statut[m]["Alertes cloturees"]
              /\ totals[m].total_closed
                   = statut_counter(statut[m], "Clos")
                     + statut_counter(statut[m], "Clos (Traite)")
                     + statut_counter(statut[m], "Clos (Patch cumulative)")
                     + statut_counter(statut[m], "Clos (Non concerne)")
              /\ totals[m].total_ongoing = statut[m]["Alertes en cours"]
              /\ totals[m].total_ongoing
                   = statut_counter(statut[m], "Open")
                     + statut_counter(statut[m], "WIP")
                     + statut_counter(statut[m], "Pending")
                     + statut_counter(statut[m], "NOK")

-----------------------------------------------------------------------------
(* get_open_vs_closed against get_status_distribution, checked under *)
(* SpecStatut *)

\* the count a result of get_status_distribution holds for a status: the
\* entry of the status for one client, the sum of the entries of the status
\* over the clients for all clients; no entry counts 0
distribution_count(dist, client, status) ==
    IF client # ""
    THEN IF status \in DOMAIN dist THEN dist[status] ELSE 0
    ELSE sum_over([cl \in Clients |->
                      IF <<cl, status>> \in DOMAIN dist THEN dist[<<cl, status>>]
                      ELSE 0],
                  Clients)

\* the month filters of the two aggregators: none, the two months with
\* bulletins, and a text that is no month
DistributionMonthFilters == MonthFilters \cup {MalformedMonth}

\* C27: for every client filter and month, the 'Open' bucket of
\* get_open_vs_closed is the count of get_status_distribution for Open and its
\* 'Clos' bucket is the sum of the counts of get_status_distribution over the
\* four closed statuses, summed over the clients when no client is given
C27_OpenVsClosedMatchesDistribution ==
    \A c \in ClientFilters, m \in DistributionMonthFilters :
        LET ovc == get_open_vs_closed(tracking, vulnerabilities, c, m)
            dist == get_status_distribution(tracking, vulnerabilities, c, m)
        IN /\ ovc.Open = distribution_count(dist, c, "Open")
           /\ ovc.Clos = sum_over([st \in closed_statuses |->
                                     distribution_count(dist, c, st)],
                                  closed_statuses)

\* B1 tracked for Acme with a row that is closed and for Beta with a row that
\* is open: for all clients, one pair in each bucket
C27_Witness ==
    /\ \E r \in tracking : /\ r.id_bulletin = "B1" /\ r.client = "Acme"
                            /\ r.status = "Clos (Non concerne)"
    /\ \E r \in tracking : /\ r.id_bulletin = "B1" /\ r.client = "Beta"
                            /\ r.status = "Open"
    /\ get_open_vs_closed(tracking, vulnerabilities, "", 202402) = [Open |-> 1, Clos |-> 1]
    /\ get_status_distribution(tracking, vulnerabilities, "", 202402)
         = (<<"Acme", "Clos (Non concerne)">> :> 1) @@ (<<"Beta", "Open">> :> 1)

-----------------------------------------------------------------------------
(* SpecIngest: bulletins ingested once or again, with one CVE or two and     *)
(* with the release date of the upload, and tracked for two clients          *)

\* the number of tracking rows inserted where bulletins are ingested again
MaxIngestRows == 2

\* vuln['cves'] of an upload: the first CVE of the bulletin, or both
IngestCves == { {"CVE-1"}, {"CVE-1", "CVE-2"} }

\* vuln['Date_de_sortie'] of an upload: 2024-02-16, or 2024-03-04
IngestReleaseInputs == {Date(2024, 2, 16), Date(2024, 3, 4)}

NextIngest ==
    \/ \E b \in Bulletins, cves \in IngestCves, d \in IngestReleaseInputs :
          insert_vulnerability(b, cves, d, default_processing_time)
    \/ \E k \in TrackInputs :
          /\ nextId <= MaxIngestRows
          /\ insert_client_tracking(k[1], k[2], k[3], "SOC Team", "c0")

SpecIngest == Init /\ [][NextIngest]_vars

\* C28: in every store that insert_vulnerability and insert_client_tracking
\* lead to, get_comprehensive_table() with no month selected returns, and the
\* sum of total_vulnerabilities over its months is the number of records of
\* get_client_vulns() without filters: each pair is counted in one month
C28_EachPairInOneMonth ==
    /\ ~get_comprehensive_table_raises(tracking, vulnerabilities, "", {})
    /\ ~get_client_vulns_raises(tracking, vulnerabilities, "", 0, 0)
    /\ LET totals == comprehensive_totals(tracking, vulnerabilities, "", {})
       IN sum_over([m \in DOMAIN totals |-> totals[m].total_vulnerabilities],
                   DOMAIN totals)
            = Len(get_client_vulns(tracking, vulnerabilities, "", 0, 0))

-----------------------------------------------------------------------------
(* SpecOperator: ingestion, tracker-form edits, deletions of pairs and the   *)
(* tracker page, which rolls the dates over and makes the consolidated read  *)

NextOperator ==
    \/ NextForm
    \/ \E r \in tracking : delete_client_vuln_group(r.id_bulletin, r.client)
    \/ update_daily_treatment_dates
    \/ \E c \in ClientFilters : tracker_get(c, 0)

SpecOperator == Init /\ [][NextOperator]_vars

\* C29: in every store that ingestion, tracker-form edits, deletions and the
\* rollover lead to, get_client_vulns returns its records without raising,
\* for all clients and for each client, and a request of the tracker page is
\* answered with the records
C29_ReadNeverRaises ==
    /\ \A c \in ClientFilters :
          ~get_client_vulns_raises(tracking, vulnerabilities, c, 0, 0)
    /\ response.kind = "tracker" => ~response.error

-----------------------------------------------------------------------------
(* SpecRace: rollovers of concurrent requests, each in two steps, next to    *)
(* one operator update that closes a row with a treatment date               *)

\* update_client_vuln(row_id, status, comment, date_traitement) of request i:
\* one UPDATE ... WHERE id = ? (db.py 242-246); the request keeps the row and
\* the date it submitted
operator_update(i, row_id, status, date_traitement) ==
    /\ inflight[i].pc = "idle"
    /\ tracking' = tracking_after_update(tracking, row_id, status, "c1",
                                         date_traitement, today)
    /\ inflight' = [inflight EXCEPT ![i] = [pc |-> "closed", date |-> date_traitement,
                                            row |-> row_id]]
    /\ response' = no_response
    /\ UNCHANGED <<vulnerabilities, nextId, today>>

\* the POST of the tracker form of request i: one UPDATE ... WHERE
\* id_bulletin = ? AND client = ? (app.py 360)
operator_form(i, row_id, status, date_traitement) ==
    /\ inflight[i].pc = "idle"
    /\ tracking' = tracking_after_form(tracking, row_id, status, "c1",
                                       date_traitement, "IT Team")
    /\ inflight' = [inflight EXCEPT ![i] = [pc |-> "closed", date |-> date_traitement,
                                            row |-> row_id]]
    /\ response' = no_response
    /\ UNCHANGED <<vulnerabilities, nextId, today>>

\* the closed statuses and the treatment dates the operator submits: a date
\* before and a date after the days of the clock
RaceStatusInputs == {"Clos", "Clos (Traite)"}

RaceDateInputs == {Date(2024, 2, 10), Date(2024, 3, 1)}

\* the rows are ingested, open, before the requests start; then the requests run
\* their steps in any order, one of them at most being the operator's
NextRace ==
    \/ /\ \A i \in Requests : inflight[i].pc = "idle"
       /\ insert_vulnerability("B1", CVEs, release_date("B1"), default_processing_time)
    \/ \E k \in DatedTrackInputs :
          /\ \A i \in Requests : inflight[i].pc = "idle"
          /\ nextId <= MaxDatedRows
          /\ insert_client_tracking(k[1], k[2], k[3], "SOC Team", "c0")
    \/ \E i \in Requests : rollover_read_date(i)
    \/ \E i \in Requests : rollover_update(i)
    \/ \E i \in Requests, r \in tracking, st \in RaceStatusInputs, d \in RaceDateInputs :
          /\ \A j \in Requests : inflight[j].pc # "closed"
          /\ operator_update(i, r.id, st, d)
    \/ \E i \in Requests, r \in tracking, st \in RaceStatusInputs, d \in RaceDateInputs :
          /\ \A j \in Requests : inflight[j].pc # "closed"
          /\ operator_form(i, r.id, st, d)
    \/ tick

SpecRace == Init /\ [][NextRace]_vars

\* C30: whatever the order of the steps of the rollovers and of the operator's
\* update that closes a row with the treatment date d, once the update is
\* made the row is closed with the treatment date d, and it still is when
\* every rollover has finished
C30_RolloverKeepsClosedDate ==
    \A i \in Requests :
        inflight[i].pc = "closed" =>
            \A r \in tracking :
                r.id = inflight[i].row =>
                    /\ r.status \in closed_statuses
                    /\ r.Date_de_traitement = inflight[i].date

\* the operator closed row 1 with 2024-03-01 while a rollover that had read
\* the date of the day before was in flight; the rollover has finished on the
\* next day, and the row is closed with 2024-03-01
C30_Witness ==
    /\ \E i \in Requests :
          /\ inflight[i].pc = "closed" /\ inflight[i].row = 1
          /\ inflight[i].date = Date(2024, 3, 1)
    /\ \E i \in Requests :
          /\ inflight[i].pc = "done" /\ inflight[i].date = FirstDay
    /\ today = next_day(FirstDay)
    /\ \E r \in tracking : /\ r.id = 1 /\ r.status = "Clos (Traite)"
                            /\ r.Date_de_traitement = Date(2024, 3, 1)
    /\ \E r \in tracking : /\ r.id = 2 /\ r.status = "Open"
                            /\ r.Date_de_traitement = FirstDay

=============================================================================
